---- MODULE Spec2Model ----
(***************************************************************************)
(* Multi-source confidence scoring engine of ValidateMD                    *)
(* (Backend/validation/confidence/confidence.py).                          *)
(*                                                                         *)
(* Conventions of the model                                                *)
(*  - A Python str is a sequence of one-character strings; None is the     *)
(*    distinguished value Null.                                            *)
(*  - A similarity (a Python float in 0..100) is an exact rational         *)
(*    [n, d] in lowest terms; binary floating point is modelled apart,     *)
(*    in the section on Python floats.                                     *)
(*  - A weight (0.30, 0.45, ...) is kept as an integer number of           *)
(*    hundredths (30, 45, ...).                                            *)
(*  - A value that went through round(x, 2) is kept as an integer number   *)
(*    of hundredths of a point (93.75 is 9375), so 100 is 10000.           *)
(*  - A raised exception is the value ZeroDivisionError.                   *)
(***************************************************************************)
EXTENDS Integers, Sequences, FiniteSets, TLC

VARIABLES
    pc,              \* "call" before the operation ran, "done" after it returned
    field,           \* field_confidence_for_method: argument field
    extracted_value, \* field_confidence_for_method: argument extracted_value
    method_value,    \* field_confidence_for_method: argument method_value
    extracted,       \* the claimed record (field -> str | None)
    method_name,     \* compute_method_score: argument method_name
    method_result,   \* compute_method_score: argument method_result
    fields,          \* compute_method_score: argument fields (a list, or None)
    method_results,  \* evaluate_all: argument method_results (method -> record)
    method_weights,  \* evaluate_all: argument method_weights (a table, or None)
    field_weights,   \* evaluate_all: argument field_weights (a table, or None)
    ret,             \* the value returned by the operation
    module_globals,  \* the module-level tables FIELD_WEIGHTS and METHOD_WEIGHTS
    function,        \* the function a caller invokes
    combined_field_confidences,
                     \* compute_overall_confidence: argument combined_field_confidences
    trace,           \* the calls a caller made so far, each with its result
    frames,          \* concurrent invocations of evaluate_all: arguments and position
    locals,          \* concurrent invocations of evaluate_all: local variables
    global_reads,    \* the module-level names read so far by the invocations
    request,         \* the HTTP request being served
    uploads,         \* the files of the uploads folder
    response,        \* the HTTP response returned
    providers,       \* process_providers: argument providers
    idx,             \* process_providers: the position of the loop
    all_results,     \* process_providers: the list all_results
    csv_file,        \* the content of the file at csv_file_path
    csv_args,        \* validate_providers_from_csv: arguments use_ai and limit
    df,              \* validate_providers_from_csv: the rows read, after head(limit)
    index,           \* validate_providers_from_csv: the index of the row in the loop
    csv_results,     \* validate_providers_from_csv: the list results
    csv_summary      \* the value get_validation_summary returned for it

sessionVars == <<function, combined_field_confidences, trace>>

threadVars == <<frames, locals, global_reads>>

httpVars == <<request, uploads, response>>

pipelineVars == <<providers, idx, all_results>>

csvVars == <<csv_file, csv_args, df, index, csv_results, csv_summary>>

vars == <<pc, field, extracted_value, method_value, extracted, method_name,
          method_result, fields, method_results, method_weights,
          field_weights, ret, module_globals, sessionVars, threadVars, httpVars,
          pipelineVars, csvVars>>

----------------------------------------------------------------------------
(* Bounds of the explored inputs *)

MaxLen == 3

MaxSilent == 0

----------------------------------------------------------------------------
(* Python values *)

Null == <<"None">>

\* None passed for a list argument, and None passed for a table argument
NoList == <<"None">>

NoTable == [None |-> 0]

\* the exception a division by zero raises
ZeroDivisionError == [raised |-> "ZeroDivisionError"]

Raised(v) == "raised" \in DOMAIN v

\* Python truthiness of a str-or-None value: `not v`
Falsy(v) == v = Null \/ v = <<>>

\* character order (ASCII) of the characters the model uses
Alphabet == <<" ", "(", ")", "+", ",", "-", "0", "1", "2", "3", "4", "5",
              "7", "9", "A", "C", "P", "a", "b", "c", "d", "e", "i", "k",
              "n", "o", "p", "r", "s", "t", "u", "v", "x">>

Ord(c) == CHOOSE i \in 1..Len(Alphabet) : Alphabet[i] = c

Digits == {"0", "1", "2", "3", "4", "5", "7", "9"}

Whitespace == {" "}

\* str.isdigit() of one character
IsDigit(c) == c \in Digits

\* str.lower() of one character
LowerChar(c) ==
    CASE c = "A" -> "a"
      [] c = "C" -> "c"
      [] c = "P" -> "p"
      [] c = "S" -> "s"
      [] c = "V" -> "v"
      [] OTHER -> c

\* str.lower()
Lower(s) == [i \in 1..Len(s) |-> LowerChar(s[i])]

RECURSIVE LStrip(_)
LStrip(s) ==
    IF s # <<>> /\ Head(s) \in Whitespace THEN LStrip(Tail(s)) ELSE s

RECURSIVE RStrip(_)
RStrip(s) ==
    IF s # <<>> /\ s[Len(s)] \in Whitespace
    THEN RStrip(SubSeq(s, 1, Len(s) - 1))
    ELSE s

\* str.strip()
Strip(s) == RStrip(LStrip(s))

\* "".join(ch for ch in s if ch.isdigit())
DigitsOf(s) == SelectSeq(s, IsDigit)

----------------------------------------------------------------------------
(* Exact rationals *)

RECURSIVE GCD(_, _)
GCD(x, y) == IF y = 0 THEN x ELSE GCD(y, x % y)

Abs(x) == IF x < 0 THEN -x ELSE x

\* the rational n/d (d > 0) in lowest terms
Rat(n, d) ==
    LET g == GCD(Abs(n), d)
    IN  [n |-> n \div g, d |-> d \div g]

RInt(k) == [n |-> k, d |-> 1]

RAdd(x, y) == Rat(x.n * y.d + y.n * x.d, x.d * y.d)

\* x * k for an integer k
RScale(x, k) == Rat(x.n * k, x.d)

\* x / k for an integer k # 0
RDivInt(x, k) == IF k > 0 THEN Rat(x.n, x.d * k) ELSE Rat(-x.n, x.d * (-k))

RLeq(x, y) == x.n * y.d <= y.n * x.d

RMin(x, y) == IF RLeq(x, y) THEN x ELSE y

RMax(x, y) == IF RLeq(x, y) THEN y ELSE x

\* round(x, 2), as a number of hundredths; a tie goes to the even neighbour
Round2(x) ==
    LET num == x.n * 100
        q   == num \div x.d
        r   == num % x.d
    IN  IF 2 * r < x.d THEN q
        ELSE IF 2 * r > x.d THEN q + 1
        ELSE IF q % 2 = 0 THEN q ELSE q + 1

----------------------------------------------------------------------------
(* rapidfuzz.fuzz, as the library computes it (no default preprocessing) *)

\* one row of the longest-common-subsequence table
RECURSIVE LcsCell(_, _, _, _, _)
LcsCell(s1, s2, i, prev, row) ==
    \* row holds the cells 0..Len(row)-1 of line i; extend it to Len(s2)
    IF Len(row) = Len(s2) + 1 THEN row
    ELSE LET j == Len(row)
             v == IF s1[i] = s2[j]
                  THEN prev[j] + 1
                  ELSE IF prev[j + 1] >= row[j] THEN prev[j + 1] ELSE row[j]
         IN  LcsCell(s1, s2, i, prev, Append(row, v))

RECURSIVE LcsRows(_, _, _, _)
LcsRows(s1, s2, i, prev) ==
    IF i > Len(s1) THEN prev[Len(s2) + 1]
    ELSE LcsRows(s1, s2, i + 1, LcsCell(s1, s2, i, prev, <<0>>))

\* length of the longest common subsequence
LCS(s1, s2) == LcsRows(s1, s2, 1, [j \in 1..(Len(s2) + 1) |-> 0])

\* Indel distance: insertions and deletions turning s1 into s2
IndelDistance(s1, s2) == Len(s1) + Len(s2) - 2 * LCS(s1, s2)

\* 100 - 100 * dist / lensum (100 when lensum is 0)
NormDistance(dist, lensum) ==
    IF lensum = 0 THEN RInt(100) ELSE Rat(100 * (lensum - dist), lensum)

\* fuzz.ratio
Ratio(s1, s2) == NormDistance(IndelDistance(s1, s2), Len(s1) + Len(s2))

\* str.split(): the maximal runs of non-whitespace characters, in order
RECURSIVE SplitFrom(_, _, _)
SplitFrom(s, cur, acc) ==
    IF s = <<>> THEN (IF cur = <<>> THEN acc ELSE Append(acc, cur))
    ELSE IF Head(s) \in Whitespace
         THEN SplitFrom(Tail(s), <<>>, IF cur = <<>> THEN acc ELSE Append(acc, cur))
         ELSE SplitFrom(Tail(s), Append(cur, Head(s)), acc)

Split(s) == SplitFrom(s, <<>>, <<>>)

\* lexicographic order of two strings
RECURSIVE StrLess(_, _)
StrLess(s, t) ==
    IF t = <<>> THEN FALSE
    ELSE IF s = <<>> THEN TRUE
    ELSE IF Head(s) = Head(t) THEN StrLess(Tail(s), Tail(t))
    ELSE Ord(Head(s)) < Ord(Head(t))

RECURSIVE InsertSorted(_, _)
InsertSorted(tok, sorted) ==
    IF sorted = <<>> THEN <<tok>>
    ELSE IF StrLess(Head(sorted), tok)
         THEN <<Head(sorted)>> \o InsertSorted(tok, Tail(sorted))
         ELSE <<tok>> \o sorted

\* sorted(tokens)
RECURSIVE SortTokens(_)
SortTokens(toks) ==
    IF toks = <<>> THEN <<>> ELSE InsertSorted(Head(toks), SortTokens(Tail(toks)))

\* " ".join(tokens)
RECURSIVE Join(_)
Join(toks) ==
    IF toks = <<>> THEN <<>>
    ELSE IF Len(toks) = 1 THEN Head(toks)
    ELSE Head(toks) \o <<" ">> \o Join(Tail(toks))

\* fuzz.token_sort_ratio
TokenSortRatio(s1, s2) ==
    Ratio(Join(SortTokens(Split(s1))), Join(SortTokens(Split(s2))))

RECURSIVE Dedup(_)
Dedup(sorted) ==
    IF Len(sorted) <= 1 THEN sorted
    ELSE IF sorted[1] = sorted[2] THEN Dedup(Tail(sorted))
    ELSE <<Head(sorted)>> \o Dedup(Tail(sorted))

\* sorted(set(tokens))
SortedSet(toks) == Dedup(SortTokens(toks))

Range(seq) == {seq[i] : i \in 1..Len(seq)}

\* the tokens of toks that are (keep = TRUE) or are not (keep = FALSE) in other
TokenFilter(toks, other, keep) ==
    LET Test(t) == (t \in Range(other)) = keep
    IN  SelectSeq(toks, Test)

\* token_set_ratio, from the joined differences and the length of the joined
\* intersection
TokenSetOfJoined(sect_len, diff_ab_joined, diff_ba_joined) ==
    LET ab_len == Len(diff_ab_joined)
        ba_len == Len(diff_ba_joined)
        sep == IF sect_len # 0 THEN 1 ELSE 0
        sect_ab_len == sect_len + sep + ab_len
        sect_ba_len == sect_len + sep + ba_len
        result == NormDistance(IndelDistance(diff_ab_joined, diff_ba_joined),
                               sect_ab_len + sect_ba_len)
        sect_ab_ratio == NormDistance(sep + ab_len, sect_len + sect_ab_len)
        sect_ba_ratio == NormDistance(sep + ba_len, sect_len + sect_ba_len)
    IN  IF sect_len = 0 THEN result
        ELSE RMax(result, RMax(sect_ab_ratio, sect_ba_ratio))

\* token_set_ratio, from the common tokens and the tokens proper to each side
TokenSetOfParts(intersect, diff_ab, diff_ba) ==
    IF intersect # <<>> /\ (diff_ab = <<>> \/ diff_ba = <<>>) THEN RInt(100)
    ELSE TokenSetOfJoined(Len(Join(intersect)), Join(diff_ab), Join(diff_ba))

\* token_set_ratio, from the sorted token sets of the two strings
TokenSetOfTokens(tokens_a, tokens_b) ==
    IF tokens_a = <<>> \/ tokens_b = <<>> THEN RInt(0)
    ELSE TokenSetOfParts(TokenFilter(tokens_a, tokens_b, TRUE),
                         TokenFilter(tokens_a, tokens_b, FALSE),
                         TokenFilter(tokens_b, tokens_a, FALSE))

\* fuzz.token_set_ratio
TokenSetRatio(s1, s2) ==
    TokenSetOfTokens(SortedSet(Split(s1)), SortedSet(Split(s2)))

----------------------------------------------------------------------------
(* CONFIG: weights *)

Fields == <<"npi", "name", "address", "phone", "specialty">>

Methods == <<"npi_registry", "web_scrape", "google_maps">>

\* the module-level tables as the module body leaves them
ModuleInit ==
    [FIELD_WEIGHTS |->
        [f \in Range(Fields) |->
            CASE f = "npi" -> 30
              [] f = "name" -> 25
              [] f = "address" -> 20
              [] f = "phone" -> 15
              [] f = "specialty" -> 10],
     METHOD_WEIGHTS |->
        [m \in Range(Methods) |->
            CASE m = "npi_registry" -> 45
              [] m = "web_scrape" -> 30
              [] m = "google_maps" -> 25]]

\* a read of the module-level name FIELD_WEIGHTS, and of METHOD_WEIGHTS
FIELD_WEIGHTS == module_globals.FIELD_WEIGHTS

METHOD_WEIGHTS == module_globals.METHOD_WEIGHTS

PHONE_EXACT_BONUS == 10

\* dict.get(key, default)
Get(table, key, default) ==
    IF key \in DOMAIN table THEN table[key] ELSE default

----------------------------------------------------------------------------
(* Utility similarity functions *)

\* faulty variant: an equality shortcut taken before the missing-value test
name_similarity_shortcut(a, b) ==
    IF a = b THEN RInt(100)
    ELSE IF Falsy(a) \/ Falsy(b) THEN RInt(0)
    ELSE TokenSetRatio(a, b)

name_similarity(a, b) ==
    IF Falsy(a) \/ Falsy(b) THEN RInt(0)
    ELSE TokenSetRatio(a, b)

address_similarity(a, b) ==
    IF Falsy(a) \/ Falsy(b) THEN RInt(0)
    ELSE TokenSetRatio(a, b)

\* faulty variant: the cleaned values are compared before the missing-value test
specialty_similarity_cleanfirst(a, b) ==
    LET a_clean == IF a = Null THEN <<>> ELSE Strip(Lower(a))
        b_clean == IF b = Null THEN <<>> ELSE Strip(Lower(b))
    IN  IF a_clean = b_clean THEN RInt(100)
        ELSE IF Falsy(a) \/ Falsy(b) THEN RInt(0)
        ELSE TokenSortRatio(a_clean, b_clean)

\* faulty variant: the values are trimmed but compared in their own case
specialty_similarity_case_sensitive(a, b) ==
    IF Falsy(a) \/ Falsy(b) THEN RInt(0)
    ELSE LET a_clean == Strip(a)
             b_clean == Strip(b)
         IN  IF a_clean = b_clean THEN RInt(100)
             ELSE TokenSortRatio(a_clean, b_clean)

specialty_similarity(a, b) ==
    IF Falsy(a) \/ Falsy(b) THEN RInt(0)
    ELSE LET a_clean == Strip(Lower(a))
             b_clean == Strip(Lower(b))
         IN  IF a_clean = b_clean THEN RInt(100)
             ELSE TokenSortRatio(a_clean, b_clean)

\* faulty variant: the test for empty digit strings is left out
phone_similarity_unguarded(a, b) ==
    IF Falsy(a) \/ Falsy(b) THEN RInt(0)
    ELSE LET da == DigitsOf(a)
             db == DigitsOf(b)
         IN  IF da = db THEN RMin(RInt(100), RInt(100 + PHONE_EXACT_BONUS))
             ELSE Ratio(da, db)

\* faulty variant: the partial match is computed on the raw text
phone_similarity_raw(a, b) ==
    IF Falsy(a) \/ Falsy(b) THEN RInt(0)
    ELSE LET da == DigitsOf(a)
             db == DigitsOf(b)
         IN  IF da = <<>> \/ db = <<>> THEN RInt(0)
             ELSE IF da = db THEN RMin(RInt(100), RInt(100 + PHONE_EXACT_BONUS))
             ELSE Ratio(a, b)

phone_similarity(a, b) ==
    IF Falsy(a) \/ Falsy(b) THEN RInt(0)
    ELSE LET da == DigitsOf(a)
             db == DigitsOf(b)
         IN  IF da = <<>> \/ db = <<>> THEN RInt(0)
             ELSE IF da = db THEN RMin(RInt(100), RInt(100 + PHONE_EXACT_BONUS))
             ELSE Ratio(da, db)

\* faulty variant: empty digit strings are accepted as equal
npi_similarity_unguarded(a, b) ==
    IF Falsy(a) \/ Falsy(b) THEN RInt(0)
    ELSE IF DigitsOf(a) = DigitsOf(b) THEN RInt(100) ELSE RInt(0)

npi_similarity(a, b) ==
    IF Falsy(a) \/ Falsy(b) THEN RInt(0)
    ELSE LET a_digits == DigitsOf(a)
             b_digits == DigitsOf(b)
         IN  IF a_digits # <<>> /\ b_digits # <<>> /\ a_digits = b_digits
             THEN RInt(100)
             ELSE RInt(0)

----------------------------------------------------------------------------
(* Field-level confidence for a single method *)

field_confidence_for_method(f, ext_val, m_val) ==
    LET s == CASE f = "name" -> name_similarity(ext_val, m_val)
               [] f = "address" -> address_similarity(ext_val, m_val)
               [] f = "specialty" -> specialty_similarity(ext_val, m_val)
               [] f = "phone" -> phone_similarity(ext_val, m_val)
               [] f = "npi" -> npi_similarity(ext_val, m_val)
               [] OTHER -> RInt(0)
    IN  RMax(RInt(0), RMin(RInt(100), s))

----------------------------------------------------------------------------
(* Inputs of the comparator *)

\* a field name outside the weight table
UntrackedField == "fax"

\* the characters from which the explored values of a field are built
Chars(f) ==
    CASE f \in {"npi", "phone"} -> {"1", "2", "-"}
      [] f \in {"name", "address"} -> {"a", "b", " "}
      [] f = "specialty" -> {"a", "A", " "}
      [] OTHER -> {"1", "a"}

StringsUpTo(chars, n) == UNION {[1..k -> chars] : k \in 0..n}

Values(f) == {Null} \cup StringsUpTo(Chars(f), MaxLen)

Idle == "idle"

\* the state of the parts of the program a specification does not exercise
ModuleLoaded == module_globals = ModuleInit

NoSession == function = Idle /\ combined_field_confidences = Idle /\ trace = Idle

NoThreads == frames = Idle /\ locals = Idle /\ global_reads = Idle

NoHttp == request = Idle /\ uploads = Idle /\ response = Idle

NoPipeline == providers = Idle /\ idx = Idle /\ all_results = Idle

NoCsv ==
    /\ csv_file = Idle /\ csv_args = Idle /\ df = Idle
    /\ index = Idle /\ csv_results = Idle /\ csv_summary = Idle

InitCompare ==
    /\ pc = "call"
    /\ field \in Range(Fields) \cup {UntrackedField}
    /\ extracted_value \in Values(field)
    /\ method_value \in Values(field)
    /\ extracted = Idle
    /\ method_name = Idle
    /\ method_result = Idle
    /\ fields = Idle
    /\ method_results = Idle
    /\ method_weights = Idle
    /\ field_weights = Idle
    /\ ret = Idle
    /\ ModuleLoaded /\ NoSession /\ NoThreads /\ NoHttp /\ NoPipeline /\ NoCsv

\* one call of field_confidence_for_method
FieldConfidence ==
    /\ pc = "call"
    /\ field # Idle
    /\ ret' = field_confidence_for_method(field, extracted_value, method_value)
    /\ pc' = "done"
    /\ UNCHANGED <<field, extracted_value, method_value, extracted, method_name,
                   method_result, fields, method_results, method_weights,
                   field_weights, module_globals, sessionVars, threadVars, httpVars,
                   pipelineVars, csvVars>>

NextCompare == FieldConfidence

SpecCompare == InitCompare /\ [][NextCompare]_vars

----------------------------------------------------------------------------
(* Inputs of the scorer and of the aggregator *)

\* the claimed values of the explored provider
Canon ==
    [f \in Range(Fields) |->
        CASE f = "npi" -> <<"1", "0", "0", "3">>
          [] f = "name" -> <<"k", "e", " ", "b", "r", " ", "r", "o">>
          [] f = "address" -> <<"1", "5", " ", "s", " ", "s", "t", ",", " ", "a", "u">>
          [] f = "phone" -> <<"3", "0", "-", "4", "9">>
          [] f = "specialty" -> <<"P", "e", "d">>]

\* the way each source renders the provider's values
Observed ==
    [m \in Range(Methods) |->
        [f \in Range(Fields) |->
            CASE m = "npi_registry" /\ f = "name" -> <<"k", "e", " ", "b", " ", "r", "o">>
              [] m = "npi_registry" /\ f = "phone" -> <<"3", "0", "4", "9">>
              [] m = "web_scrape" /\ f = "name" ->
                    <<"n", " ", "k", "e", " ", "b", "r", " ", "r", "o", " ", "x">>
              [] m = "web_scrape" /\ f = "address" -> <<"1", "5", " ", "s", " ", "s", "t">>
              [] m = "web_scrape" /\ f = "phone" -> <<"(", "3", "0", ")", " ", "4", "9">>
              [] m = "web_scrape" /\ f = "specialty" -> <<"p", "e", "d">>
              [] m = "google_maps" /\ f = "npi" -> <<"1", "0", "0", "4">>
              [] m = "google_maps" /\ f = "name" -> <<"k", "e", " ", "r", "o">>
              [] m = "google_maps" /\ f = "phone" -> <<"+", "1", " ", "3", "0", "-", "4", "9">>
              [] m = "google_maps" /\ f = "specialty" -> <<"C", "a", "r", "d">>
              [] OTHER -> Canon[f]]]

\* the fields a geocoding source has an opinion on
GeocodeFields == {"address", "phone"}

\* the sets of fields a source may populate; it is silent (None) on the others
PopulatedSets ==
    {P \in SUBSET Range(Fields) : Cardinality(Range(Fields) \ P) <= MaxSilent}
        \cup {GeocodeFields, {}}

\* the records method m may return
Records(m) ==
    {[f \in Range(Fields) |-> IF f \in P THEN v[f] ELSE Null] :
        P \in PopulatedSets, v \in {Canon, Observed[m]}}

EmptyDict == [k \in {} |-> 0]

\* the method is not a key of method_results
Absent == [absent |-> TRUE]

ClaimedRecords ==
    { Canon,
      [f \in Range(Fields) |-> Null],
      EmptyDict,
      [f \in Range(Fields) |->
          CASE f = "npi" -> <<"1", "0", "0", "4">>
            [] f = "phone" -> <<>>
            [] OTHER -> Canon[f]] }

MethodWeightTables ==
    { NoTable, [m \in {"npi_registry", "web_scrape"} |-> IF m = "web_scrape" THEN 50 ELSE 0] }

FieldWeightTables ==
    { NoTable, [f \in {"npi", "phone"} |-> 50], [f \in {"npi"} |-> 0] }

AllFieldNames == Fields \o <<UntrackedField, "email">>

FieldLists ==
    {NoList} \cup
    {LET Chosen(f) == f \in S IN SelectSeq(AllFieldNames, Chosen) :
        S \in SUBSET Range(AllFieldNames)}

\* the values a claimed record and a method record hold for field f
ClaimedValues(f) == {Get(c, f, Null) : c \in ClaimedRecords}

ObservedValues(f) ==
    UNION {{Get(r, f, Null) : r \in Records(m)} : m \in Range(Methods)}

\* field_confidence_for_method over the explored values, computed once
ConfidenceTable ==
    [f \in Range(AllFieldNames) |->
        [a \in ClaimedValues(f) |->
            [b \in ObservedValues(f) |-> field_confidence_for_method(f, a, b)]]]

\* the call field_confidence_for_method(f, ext_val, m_val) made by the scorers
field_confidence(f, ext_val, m_val) == ConfidenceTable[f][ext_val][m_val]

----------------------------------------------------------------------------
(* A single method's overall confidence (weighted field average) *)

\* x / k as Python evaluates it: a division by zero raises
Quot(x, k) == IF k = 0 THEN ZeroDivisionError ELSE RDivInt(x, k)

\* faulty variant: the breakdown keeps the weighted confidence conf * w
RECURSIVE method_score_loop_weighted(_, _, _, _, _)
method_score_loop_weighted(ext, m_res, fs, i, acc) ==
    IF i > Len(fs) THEN acc
    ELSE LET f == fs[i]
             conf == field_confidence(f, Get(ext, f, Null), Get(m_res, f, Null))
             w == Get(FIELD_WEIGHTS, f, 0)
         IN  method_score_loop_weighted(ext, m_res, fs, i + 1,
                 [breakdown |-> [g \in DOMAIN acc.breakdown \cup {f} |->
                                    IF g = f THEN Round2(RDivInt(RScale(conf, w), 100))
                                    ELSE acc.breakdown[g]],
                  weighted_sum |-> RAdd(acc.weighted_sum, RScale(conf, w)),
                  weight_total |-> acc.weight_total + w])

\* faulty variant: weight_total = w instead of weight_total += w
RECURSIVE method_score_loop_overwrite(_, _, _, _, _)
method_score_loop_overwrite(ext, m_res, fs, i, acc) ==
    IF i > Len(fs) THEN acc
    ELSE LET f == fs[i]
             conf == field_confidence(f, Get(ext, f, Null), Get(m_res, f, Null))
             w == Get(FIELD_WEIGHTS, f, 0)
         IN  method_score_loop_overwrite(ext, m_res, fs, i + 1,
                 [breakdown |-> [g \in DOMAIN acc.breakdown \cup {f} |->
                                    IF g = f THEN Round2(conf) ELSE acc.breakdown[g]],
                  weighted_sum |-> RAdd(acc.weighted_sum, RScale(conf, w)),
                  weight_total |-> w])

\* the loop `for f in fields` of compute_method_score, from position i on
RECURSIVE method_score_loop(_, _, _, _, _)
method_score_loop(ext, m_res, fs, i, acc) ==
    IF i > Len(fs) THEN acc
    ELSE LET f == fs[i]
             conf == field_confidence(f, Get(ext, f, Null), Get(m_res, f, Null))
             w == Get(FIELD_WEIGHTS, f, 0)
         IN  method_score_loop(ext, m_res, fs, i + 1,
                 [breakdown |-> [g \in DOMAIN acc.breakdown \cup {f} |->
                                    IF g = f THEN Round2(conf) ELSE acc.breakdown[g]],
                  weighted_sum |-> RAdd(acc.weighted_sum, RScale(conf, w)),
                  weight_total |-> acc.weight_total + w])

\* faulty variant: the division is not guarded
method_average_unguarded(weighted_sum, weight_total) ==
    Quot(weighted_sum, weight_total)

\* faulty variant: the denominator is the total of the five-field table
method_average_fixed_total(weighted_sum, weight_total) ==
    IF weight_total > 0 THEN Quot(weighted_sum, 100) ELSE RInt(0)

\* (weighted_sum / weight_total) if weight_total > 0 else 0.0
method_average(weighted_sum, weight_total) ==
    IF weight_total > 0 THEN Quot(weighted_sum, weight_total) ELSE RInt(0)

compute_method_score(m_name, ext, m_res, fs_arg) ==
    LET fs == IF fs_arg = NoList THEN Fields ELSE fs_arg
        acc == method_score_loop(ext, m_res, fs, 1,
                   [breakdown |-> EmptyDict, weighted_sum |-> RInt(0), weight_total |-> 0])
        method_score == method_average(acc.weighted_sum, acc.weight_total)
    IN  IF Raised(method_score) THEN method_score
        ELSE [method_score |-> Round2(method_score), breakdown |-> acc.breakdown]

----------------------------------------------------------------------------
(* Per-field confidences combined across methods *)

\* the methods of a method_results mapping, in iteration order
MethodsOf(m_results) ==
    LET Present(m) == m \in DOMAIN m_results
    IN  SelectSeq(Methods, Present)

\* faulty variant: the division is not guarded
weighted_average_unguarded(num, den) == Quot(num, den)

\* (num / den) if den else 0.0
weighted_average(num, den) == IF den # 0 THEN Quot(num, den) ELSE RInt(0)

\* faulty variant: the denominator is the total weight of the three known methods
RECURSIVE combine_loop_all_methods(_, _, _, _, _, _)
combine_loop_all_methods(per_method_field, ms, m_weights, f, i, acc) ==
    IF i > Len(ms)
    THEN [num |-> acc.num,
          den |-> Get(m_weights, Methods[1], 0) + Get(m_weights, Methods[2], 0)
                      + Get(m_weights, Methods[3], 0)]
    ELSE LET w == Get(m_weights, ms[i], 0)
         IN  combine_loop_all_methods(per_method_field, ms, m_weights, f, i + 1,
                 [num |-> RAdd(acc.num, RScale(per_method_field[ms[i]][f], w)),
                  den |-> acc.den + w])

\* faulty variant: a method missing from the weight table weighs 1.0
RECURSIVE combine_loop_default_one(_, _, _, _, _, _)
combine_loop_default_one(per_method_field, ms, m_weights, f, i, acc) ==
    IF i > Len(ms) THEN acc
    ELSE LET w == Get(m_weights, ms[i], 100)
         IN  combine_loop_default_one(per_method_field, ms, m_weights, f, i + 1,
                 [num |-> RAdd(acc.num, RScale(per_method_field[ms[i]][f], w)),
                  den |-> acc.den + w])

\* faulty variant: a method whose similarity is 0 is left out of the average
RECURSIVE combine_loop_skip_zero(_, _, _, _, _, _)
combine_loop_skip_zero(per_method_field, ms, m_weights, f, i, acc) ==
    IF i > Len(ms) THEN acc
    ELSE LET w == IF per_method_field[ms[i]][f] = RInt(0) THEN 0
                  ELSE Get(m_weights, ms[i], 0)
         IN  combine_loop_skip_zero(per_method_field, ms, m_weights, f, i + 1,
                 [num |-> RAdd(acc.num, RScale(per_method_field[ms[i]][f], w)),
                  den |-> acc.den + w])

\* the loop `for method_name, per_field in per_method_field.items()`, from i on
RECURSIVE combine_loop(_, _, _, _, _, _)
combine_loop(per_method_field, ms, m_weights, f, i, acc) ==
    IF i > Len(ms) THEN acc
    ELSE LET w == Get(m_weights, ms[i], 0)
         IN  combine_loop(per_method_field, ms, m_weights, f, i + 1,
                 [num |-> RAdd(acc.num, RScale(per_method_field[ms[i]][f], w)),
                  den |-> acc.den + w])

\* faulty variant: a field on which no method reports a value is left out
compute_combined_field_confidences_skip_silent(ext, m_results, m_weights_arg) ==
    LET m_weights == IF m_weights_arg = NoTable THEN METHOD_WEIGHTS ELSE m_weights_arg
        per_method_field ==
            [m \in DOMAIN m_results |->
                [f \in Range(Fields) |->
                    field_confidence(f, Get(ext, f, Null), Get(m_results[m], f, Null))]]
        reported == {f \in Range(Fields) :
                        \E m \in DOMAIN m_results : Get(m_results[m], f, Null) # Null}
        sums == [f \in reported |->
                    combine_loop(per_method_field, MethodsOf(m_results), m_weights, f, 1,
                                 [num |-> RInt(0), den |-> 0])]
        quot == [f \in reported |-> weighted_average(sums[f].num, sums[f].den)]
    IN  IF \E f \in reported : Raised(quot[f]) THEN ZeroDivisionError
        ELSE [combined |-> [f \in reported |-> Round2(quot[f])],
              per_method_field |-> per_method_field]

compute_combined_field_confidences(ext, m_results, m_weights_arg) ==
    LET m_weights == IF m_weights_arg = NoTable THEN METHOD_WEIGHTS ELSE m_weights_arg
        per_method_field ==
            [m \in DOMAIN m_results |->
                [f \in Range(Fields) |->
                    field_confidence(f, Get(ext, f, Null), Get(m_results[m], f, Null))]]
        sums == [f \in Range(Fields) |->
                    combine_loop(per_method_field, MethodsOf(m_results), m_weights, f, 1,
                                 [num |-> RInt(0), den |-> 0])]
        quot == [f \in Range(Fields) |->
                    weighted_average(sums[f].num, sums[f].den)]
    IN  IF \E f \in Range(Fields) : Raised(quot[f]) THEN ZeroDivisionError
        ELSE [combined |-> [f \in Range(Fields) |-> Round2(quot[f])],
              per_method_field |-> per_method_field]

----------------------------------------------------------------------------
(* Overall provider confidence *)

\* the keys of a dict whose keys are field names, in iteration order
KeysOf(dict) ==
    LET Present(f) == f \in DOMAIN dict
    IN  SelectSeq(AllFieldNames, Present)

\* faulty variant: the field weight is applied twice
RECURSIVE overall_loop_double(_, _, _, _, _)
overall_loop_double(combined, ks, f_weights, i, acc) ==
    IF i > Len(ks) THEN acc
    ELSE LET w == Get(f_weights, ks[i], 0)
         IN  overall_loop_double(combined, ks, f_weights, i + 1,
                 [num |-> RAdd(acc.num, RScale(Rat(combined[ks[i]], 100), w * w)),
                  den |-> acc.den + w * w])

\* faulty variant: a field missing from the table weighs 1.0
RECURSIVE overall_loop_default_one(_, _, _, _, _)
overall_loop_default_one(combined, ks, f_weights, i, acc) ==
    IF i > Len(ks) THEN acc
    ELSE LET w == Get(f_weights, ks[i], 100)
         IN  overall_loop_default_one(combined, ks, f_weights, i + 1,
                 [num |-> RAdd(acc.num, RScale(Rat(combined[ks[i]], 100), w)),
                  den |-> acc.den + w])

\* the loop `for f, conf in combined_field_confidences.items()`, from i on
RECURSIVE overall_loop(_, _, _, _, _)
overall_loop(combined, ks, f_weights, i, acc) ==
    IF i > Len(ks) THEN acc
    ELSE LET w == Get(f_weights, ks[i], 0)
         IN  overall_loop(combined, ks, f_weights, i + 1,
                 [num |-> RAdd(acc.num, RScale(Rat(combined[ks[i]], 100), w)),
                  den |-> acc.den + w])

compute_overall_confidence(combined, f_weights_arg) ==
    LET f_weights == IF f_weights_arg = NoTable THEN FIELD_WEIGHTS ELSE f_weights_arg
        acc == overall_loop(combined, KeysOf(combined), f_weights, 1,
                            [num |-> RInt(0), den |-> 0])
        overall == weighted_average(acc.num, acc.den)
    IN  IF Raised(overall) THEN overall ELSE [overall |-> Round2(overall)]

----------------------------------------------------------------------------
(* Full pipeline given extracted + method outputs *)

evaluate_all(ext, m_results, m_weights_arg, f_weights_arg) ==
    LET scores == [m \in DOMAIN m_results |->
                      compute_method_score(m, ext, m_results[m], NoList)]
        comb == compute_combined_field_confidences(ext, m_results, m_weights_arg)
        overall == compute_overall_confidence(comb.combined, f_weights_arg)
    IN  IF \E m \in DOMAIN m_results : Raised(scores[m]) THEN ZeroDivisionError
        ELSE IF Raised(comb) THEN comb
        ELSE IF Raised(overall) THEN overall
        ELSE [method_scores |-> scores,
              combined_fields |-> comb.combined,
              per_method_field_confidences |-> comb.per_method_field,
              overall_confidence |-> overall.overall]

----------------------------------------------------------------------------
(* The specifications of the scorer and of the aggregator *)

Init ==
    /\ pc = "call"
    /\ extracted \in ClaimedRecords
    /\ \E r \in [Range(Methods) -> {0, 1}] :
          \E reg \in IF r["npi_registry"] = 1 THEN Records("npi_registry") ELSE {Absent},
             web \in IF r["web_scrape"] = 1 THEN Records("web_scrape") ELSE {Absent},
             geo \in IF r["google_maps"] = 1 THEN Records("google_maps") ELSE {Absent} :
             method_results =
                 [m \in {k \in Range(Methods) : r[k] = 1} |->
                     CASE m = "npi_registry" -> reg
                       [] m = "web_scrape" -> web
                       [] m = "google_maps" -> geo]
    /\ method_weights \in MethodWeightTables
    /\ field_weights \in FieldWeightTables
    /\ field = Idle
    /\ extracted_value = Idle
    /\ method_value = Idle
    /\ method_name = Idle
    /\ method_result = Idle
    /\ fields = Idle
    /\ ret = Idle
    /\ ModuleLoaded /\ NoSession /\ NoThreads /\ NoHttp /\ NoPipeline /\ NoCsv

\* one call of evaluate_all
EvaluateAll ==
    /\ pc = "call"
    /\ method_name = Idle
    /\ field = Idle
    /\ ret' = evaluate_all(extracted, method_results, method_weights, field_weights)
    /\ pc' = "done"
    /\ UNCHANGED <<field, extracted_value, method_value, extracted, method_name,
                   method_result, fields, method_results, method_weights,
                   field_weights, module_globals, sessionVars, threadVars, httpVars,
                   pipelineVars, csvVars>>

Next == EvaluateAll

Spec == Init /\ [][Next]_vars

InitMethod ==
    /\ pc = "call"
    /\ extracted \in ClaimedRecords
    /\ method_name \in Range(Methods)
    /\ method_result \in Records(method_name)
    /\ fields \in FieldLists
    /\ field = Idle
    /\ extracted_value = Idle
    /\ method_value = Idle
    /\ method_results = Idle
    /\ method_weights = Idle
    /\ field_weights = Idle
    /\ ret = Idle
    /\ ModuleLoaded /\ NoSession /\ NoThreads /\ NoHttp /\ NoPipeline /\ NoCsv

\* one call of compute_method_score
ComputeMethodScore ==
    /\ pc = "call"
    /\ method_name # Idle
    /\ ret' = compute_method_score(method_name, extracted, method_result, fields)
    /\ pc' = "done"
    /\ UNCHANGED <<field, extracted_value, method_value, extracted, method_name,
                   method_result, fields, method_results, method_weights,
                   field_weights, module_globals, sessionVars, threadVars, httpVars,
                   pipelineVars, csvVars>>

NextMethod == ComputeMethodScore

SpecMethod == InitMethod /\ [][NextMethod]_vars

----------------------------------------------------------------------------
(* evaluate_all called with a weight table that holds a negative weight *)

HasNegative(table) == \E k \in DOMAIN table : table[k] < 0

\* every method_results mapping over the explored records
AllMethodResults ==
    UNION {{mr \in [M -> UNION {Records(m) : m \in M}] :
                \A m \in M : mr[m] \in Records(m)} :
           M \in SUBSET Range(Methods)}

NegativeMethodWeightTables ==
    { [m \in {"npi_registry", "web_scrape"} |-> IF m = "web_scrape" THEN 100 ELSE -50],
      [m \in Range(Methods) |-> IF m = "google_maps" THEN -25 ELSE ModuleInit.METHOD_WEIGHTS[m]] }

NegativeFieldWeightTables ==
    { [f \in {"npi", "name"} |-> IF f = "name" THEN 60 ELSE -30],
      [f \in Range(Fields) |-> IF f = "phone" THEN -15 ELSE ModuleInit.FIELD_WEIGHTS[f]] }

InitConfig ==
    /\ pc = "call"
    /\ extracted = Canon
    /\ method_results \in AllMethodResults
    /\ method_weights \in MethodWeightTables \cup NegativeMethodWeightTables
    /\ field_weights \in FieldWeightTables \cup NegativeFieldWeightTables
    /\ HasNegative(method_weights) \/ HasNegative(field_weights)
    /\ field = Idle
    /\ extracted_value = Idle
    /\ method_value = Idle
    /\ method_name = Idle
    /\ method_result = Idle
    /\ fields = Idle
    /\ ret = Idle
    /\ ModuleLoaded /\ NoSession /\ NoThreads /\ NoHttp /\ NoPipeline /\ NoCsv

NextConfig == EvaluateAll

SpecConfig == InitConfig /\ [][NextConfig]_vars

----------------------------------------------------------------------------
(* compute_method_score and compute_overall_confidence called on their own, *)
(* with fields that are not keys of the weight table                        *)

\* the combined mappings a caller passes to compute_overall_confidence
CombinedMappings ==
    UNION {[K -> {0, 6667, 10000}] :
           K \in { Range(Fields), Range(Fields) \cup {UntrackedField},
                   {"npi", UntrackedField}, {} }}

InitTable ==
    /\ pc = "call"
    /\ \/ /\ function = "compute_method_score"
          /\ extracted \in ClaimedRecords
          /\ method_name \in Range(Methods)
          /\ method_result \in Records(method_name)
          /\ fields \in FieldLists
          /\ combined_field_confidences = Idle
          /\ field_weights = Idle
       \/ /\ function = "compute_overall_confidence"
          /\ combined_field_confidences \in CombinedMappings
          /\ field_weights \in FieldWeightTables
          /\ extracted = Idle
          /\ method_name = Idle
          /\ method_result = Idle
          /\ fields = Idle
    /\ field = Idle
    /\ extracted_value = Idle
    /\ method_value = Idle
    /\ method_results = Idle
    /\ method_weights = Idle
    /\ ret = Idle
    /\ trace = Idle
    /\ ModuleLoaded /\ NoThreads /\ NoHttp /\ NoPipeline /\ NoCsv

\* one call of compute_overall_confidence
ComputeOverallConfidence ==
    /\ pc = "call"
    /\ function = "compute_overall_confidence"
    /\ ret' = compute_overall_confidence(combined_field_confidences, field_weights)
    /\ pc' = "done"
    /\ UNCHANGED <<field, extracted_value, method_value, extracted, method_name,
                   method_result, fields, method_results, method_weights,
                   field_weights, module_globals, sessionVars, threadVars, httpVars,
                   pipelineVars, csvVars>>

NextTable == ComputeMethodScore \/ ComputeOverallConfidence

SpecTable == InitTable /\ [][NextTable]_vars

----------------------------------------------------------------------------
(* A caller making several calls in a row on the same objects *)

MaxCalls == 3

Functions ==
    { "compute_method_score", "compute_combined_field_confidences",
      "compute_overall_confidence", "evaluate_all" }

\* the record a geocoding source returns: address and phone only
GeocodeRecord ==
    [f \in Range(Fields) |->
        IF f \in GeocodeFields THEN Observed["google_maps"][f] ELSE Null]

SessionMethodResults ==
    { EmptyDict,
      [m \in {"npi_registry", "web_scrape"} |-> Observed[m]],
      [m \in Range(Methods) |-> IF m = "google_maps" THEN GeocodeRecord ELSE Observed[m]] }

OverrideMethodWeights ==
    [m \in {"npi_registry", "web_scrape"} |-> IF m = "web_scrape" THEN 50 ELSE 0]

OverrideFieldWeights == [f \in {"npi", "phone"} |-> 50]

\* faulty variant: table.setdefault(k, 0.0) stores the default in the table
after_setdefault(table, keys) ==
    [k \in DOMAIN table \cup keys |-> Get(table, k, 0)]

\* the table once table.get(k, 0.0) was evaluated for every k of keys
after_get(table, keys) == table

\* the keys looked up in the method weight table by a call of function fn
MethodKeys(fn) ==
    IF fn \in {"compute_combined_field_confidences", "evaluate_all"}
    THEN DOMAIN method_results ELSE {}

\* the keys looked up in the module-level FIELD_WEIGHTS by a call of fn
GlobalFieldKeys(fn) ==
    CASE fn = "compute_method_score" ->
            IF fields = NoList THEN Range(Fields) ELSE Range(fields)
      [] fn = "compute_overall_confidence" ->
            IF field_weights = NoTable THEN DOMAIN combined_field_confidences ELSE {}
      [] fn = "evaluate_all" ->
            IF DOMAIN method_results # {} \/ field_weights = NoTable
            THEN Range(Fields) ELSE {}
      [] OTHER -> {}

\* the keys looked up in the supplied field weight table by a call of fn
SuppliedFieldKeys(fn) ==
    CASE fn = "compute_overall_confidence" -> DOMAIN combined_field_confidences
      [] fn = "evaluate_all" -> Range(Fields)
      [] OTHER -> {}

\* the arguments of a call of function fn
ArgsOf(fn) ==
    CASE fn = "compute_method_score" -> <<method_name, extracted, method_result, fields>>
      [] fn = "compute_combined_field_confidences" ->
            <<extracted, method_results, method_weights>>
      [] fn = "compute_overall_confidence" -> <<combined_field_confidences, field_weights>>
      [] fn = "evaluate_all" -> <<extracted, method_results, method_weights, field_weights>>

\* the value a call of function fn returns
Invoke(fn) ==
    CASE fn = "compute_method_score" ->
            compute_method_score(method_name, extracted, method_result, fields)
      [] fn = "compute_combined_field_confidences" ->
            compute_combined_field_confidences(extracted, method_results, method_weights)
      [] fn = "compute_overall_confidence" ->
            compute_overall_confidence(combined_field_confidences, field_weights)
      [] fn = "evaluate_all" ->
            evaluate_all(extracted, method_results, method_weights, field_weights)

InitSession ==
    /\ pc = "call"
    /\ function \in Functions
    /\ extracted = Canon
    /\ method_name = "web_scrape"
    /\ method_result = Observed["web_scrape"]
    /\ method_results \in SessionMethodResults
    /\ \/ /\ fields = NoList
          /\ combined_field_confidences = [f \in Range(Fields) |-> 6667]
       \/ /\ fields = <<"npi", UntrackedField>>
          /\ combined_field_confidences =
                [f \in {"npi", "name", UntrackedField} |-> IF f = "npi" THEN 10000 ELSE 6667]
    /\ \/ method_weights = NoTable /\ field_weights = NoTable
       \/ method_weights = OverrideMethodWeights /\ field_weights = OverrideFieldWeights
    /\ trace = <<>>
    /\ ret = Idle
    /\ field = Idle
    /\ extracted_value = Idle
    /\ method_value = Idle
    /\ ModuleLoaded /\ NoThreads /\ NoHttp /\ NoPipeline /\ NoCsv

\* the call runs and returns
SessionCall ==
    /\ pc = "call"
    /\ function \in Functions
    /\ ret' = Invoke(function)
    /\ module_globals' =
          [FIELD_WEIGHTS |-> after_get(FIELD_WEIGHTS, GlobalFieldKeys(function)),
           METHOD_WEIGHTS |->
              IF method_weights = NoTable
              THEN after_get(METHOD_WEIGHTS, MethodKeys(function))
              ELSE METHOD_WEIGHTS]
    /\ method_weights' =
          IF method_weights = NoTable THEN NoTable
          ELSE after_get(method_weights, MethodKeys(function))
    /\ field_weights' =
          IF field_weights = NoTable THEN NoTable
          ELSE after_get(field_weights, SuppliedFieldKeys(function))
    /\ trace' = Append(trace, [function |-> function, args |-> ArgsOf(function),
                               ret |-> ret'])
    /\ pc' = "done"
    /\ UNCHANGED <<field, extracted_value, method_value, extracted, method_name,
                   method_result, fields, method_results, function,
                   combined_field_confidences, threadVars, httpVars,
                   pipelineVars, csvVars>>

\* the caller makes its next call, with or without weight tables of its own
SessionNext ==
    /\ pc = "done"
    /\ function \in Functions
    /\ Len(trace) < MaxCalls
    /\ function' \in Functions
    /\ \/ method_weights' = NoTable /\ field_weights' = NoTable
       \/ method_weights' = OverrideMethodWeights /\ field_weights' = OverrideFieldWeights
    /\ pc' = "call"
    /\ UNCHANGED <<field, extracted_value, method_value, extracted, method_name,
                   method_result, fields, method_results, ret, module_globals,
                   combined_field_confidences, trace, threadVars, httpVars,
                   pipelineVars, csvVars>>

NextSession == SessionCall \/ SessionNext

SpecSession == InitSession /\ [][NextSession]_vars

----------------------------------------------------------------------------
(* Several invocations of evaluate_all running interleaved *)

MaxThreads == 2

Threads == 1..MaxThreads

\* a local variable that was not assigned yet
Unbound == [unbound |-> TRUE]

\* the arguments of the interleaved invocations
ThreadInputs ==
    [extracted : {Canon},
     method_results : SessionMethodResults \ {EmptyDict},
     method_weights : {NoTable},
     field_weights : {NoTable}]
    \cup
    [extracted : {Canon},
     method_results : {mr \in SessionMethodResults : DOMAIN mr = Range(Methods)},
     method_weights : {OverrideMethodWeights},
     field_weights : {OverrideFieldWeights}]

\* faulty variant: the local variables are kept in one module-level place
frame_of_shared(t) == 1

\* the place where invocation t keeps its local variables: its own frame
frame_of(t) == t

\* the module-level names read by compute_method_score(.., fields = None)
reads_of_compute_method_score == {"FIELD_WEIGHTS"}

\* the module-level names read by compute_combined_field_confidences
reads_of_compute_combined_field_confidences(m_weights_arg) ==
    {"FIELD_WEIGHTS"} \cup (IF m_weights_arg = NoTable THEN {"METHOD_WEIGHTS"} ELSE {})

\* the module-level names read by compute_overall_confidence
reads_of_compute_overall_confidence(f_weights_arg) ==
    IF f_weights_arg = NoTable THEN {"FIELD_WEIGHTS"} ELSE {}

\* some other invocation is between its first and its last step
OthersRunning(t) ==
    \E u \in Threads \ {t} : frames[u].pc \notin {"start", "done"}

InitConcurrent ==
    /\ \E inputs \in [Threads -> ThreadInputs] :
          frames = [t \in Threads |->
                       [pc |-> "start",
                        extracted |-> inputs[t].extracted,
                        method_results |-> inputs[t].method_results,
                        method_weights |-> inputs[t].method_weights,
                        field_weights |-> inputs[t].field_weights,
                        todo |-> <<>>,
                        interleaved |-> FALSE,
                        ret |-> Unbound]]
    /\ locals = [t \in Threads |->
                    [method_scores |-> Unbound, comb |-> Unbound, overall |-> Unbound]]
    /\ global_reads = {}
    /\ pc = Idle
    /\ field = Idle
    /\ extracted_value = Idle
    /\ method_value = Idle
    /\ extracted = Idle
    /\ method_name = Idle
    /\ method_result = Idle
    /\ fields = Idle
    /\ method_results = Idle
    /\ method_weights = Idle
    /\ field_weights = Idle
    /\ ret = Idle
    /\ ModuleLoaded /\ NoSession /\ NoHttp /\ NoPipeline /\ NoCsv

\* what every step of an invocation leaves alone
ThreadFrame ==
    UNCHANGED <<pc, field, extracted_value, method_value, extracted, method_name,
                method_result, fields, method_results, method_weights,
                field_weights, ret, module_globals, sessionVars, httpVars,
                   pipelineVars, csvVars>>

\* method_scores = {} and the start of the loop over method_results
Begin(t) ==
    /\ frames[t].pc = "start"
    /\ locals' = [locals EXCEPT ![frame_of(t)].method_scores = EmptyDict]
    /\ frames' = [frames EXCEPT
                     ![t].pc = "scores",
                     ![t].todo = MethodsOf(frames[t].method_results),
                     ![t].interleaved = @ \/ OthersRunning(t)]
    /\ UNCHANGED global_reads
    /\ ThreadFrame

\* one iteration of the loop `for method_name, result in method_results.items()`
ScoreStep(t) ==
    /\ frames[t].pc = "scores"
    /\ frames[t].todo # <<>>
    /\ LET m == Head(frames[t].todo)
           scored == compute_method_score(m, frames[t].extracted,
                                          frames[t].method_results[m], NoList)
           before == locals[frame_of(t)].method_scores
       IN  locals' = [locals EXCEPT ![frame_of(t)].method_scores =
                         [k \in DOMAIN before \cup {m} |->
                             IF k = m THEN scored ELSE before[k]]]
    /\ frames' = [frames EXCEPT
                     ![t].todo = Tail(@),
                     ![t].interleaved = @ \/ OthersRunning(t)]
    /\ global_reads' = global_reads \cup reads_of_compute_method_score
    /\ ThreadFrame

\* the call of compute_combined_field_confidences, once the loop has ended
CombineStep(t) ==
    /\ frames[t].pc = "scores"
    /\ frames[t].todo = <<>>
    /\ locals' = [locals EXCEPT ![frame_of(t)].comb =
                     compute_combined_field_confidences(frames[t].extracted,
                         frames[t].method_results, frames[t].method_weights)]
    /\ frames' = [frames EXCEPT
                     ![t].pc = "overall",
                     ![t].interleaved = @ \/ OthersRunning(t)]
    /\ global_reads' = global_reads \cup
          reads_of_compute_combined_field_confidences(frames[t].method_weights)
    /\ ThreadFrame

\* the call of compute_overall_confidence
OverallStep(t) ==
    /\ frames[t].pc = "overall"
    /\ locals' = [locals EXCEPT ![frame_of(t)].overall =
                     compute_overall_confidence(locals[frame_of(t)].comb.combined,
                                                frames[t].field_weights)]
    /\ frames' = [frames EXCEPT
                     ![t].pc = "return",
                     ![t].interleaved = @ \/ OthersRunning(t)]
    /\ global_reads' = global_reads \cup
          reads_of_compute_overall_confidence(frames[t].field_weights)
    /\ ThreadFrame

\* return method_scores, combined_fields, per_method_field_confidences, overall
ReturnStep(t) ==
    /\ frames[t].pc = "return"
    /\ frames' = [frames EXCEPT
                     ![t].pc = "done",
                     ![t].interleaved = @ \/ OthersRunning(t),
                     ![t].ret =
                         [method_scores |-> locals[frame_of(t)].method_scores,
                          combined_fields |-> locals[frame_of(t)].comb.combined,
                          per_method_field_confidences |->
                              locals[frame_of(t)].comb.per_method_field,
                          overall_confidence |-> locals[frame_of(t)].overall.overall]]
    /\ UNCHANGED <<locals, global_reads>>
    /\ ThreadFrame

NextConcurrent ==
    \E t \in Threads :
        Begin(t) \/ ScoreStep(t) \/ CombineStep(t) \/ OverallStep(t) \/ ReturnStep(t)

SpecConcurrent == InitConcurrent /\ [][NextConcurrent]_vars

----------------------------------------------------------------------------
(* The HTTP layer (Backend/app.py): /api/validate and /api/validate-sample *)

MaxProviders == 2

\* Python values as the handlers see them: the type, and the value
PyNone == [t |-> "NoneType", v |-> <<>>]

PyBool(b) == [t |-> "bool", v |-> b]

PyInt(k) == [t |-> "int", v |-> k]

PyStr(s) == [t |-> "str", v |-> s]

\* a finite float, kept as an exact rational
PyFloat(x) == [t |-> "float", v |-> x]

NaN == [t |-> "float", v |-> [nonfinite |-> "nan"]]

Infinity == [t |-> "float", v |-> [nonfinite |-> "inf"]]

PyDict(d) == [t |-> "dict", v |-> d]

PyList(s) == [t |-> "list", v |-> s]

\* np.isnan(obj) and np.isinf(obj) of a float
isnan(obj) == "nonfinite" \in DOMAIN obj.v /\ obj.v.nonfinite = "nan"

isinf(obj) == "nonfinite" \in DOMAIN obj.v /\ obj.v.nonfinite = "inf"

\* the function sanitize nested in validate_csv
RECURSIVE sanitize(_)
sanitize(obj) ==
    IF obj.t = "dict" THEN PyDict([k \in DOMAIN obj.v |-> sanitize(obj.v[k])])
    ELSE IF obj.t = "list" THEN PyList([i \in 1..Len(obj.v) |-> sanitize(obj.v[i])])
    ELSE IF obj.t = "float" /\ (isnan(obj) \/ isinf(obj)) THEN PyNone
    ELSE obj

SUCCESS == <<"S", "U", "C", "C", "E", "S", "S">>

NOT_FOUND == <<"N", "O", "T", "_", "F", "O", "U", "N", "D">>

PERFECT_MATCH == <<"P", "E", "R", "F", "E", "C", "T", "_", "M", "A", "T", "C", "H">>

\* f"{len(mismatches)}_MISMATCHES" for one mismatch
ONE_MISMATCHES == <<"1", "_", "M", "I", "S", "M", "A", "T", "C", "H", "E", "S">>

\* what validate_providers_from_csv can report about one row of the CSV file:
\* the Phone cell is text or empty (NaN), the Zip cell a number or "inf", the
\* registry lookup succeeds or not, and a successful lookup shows 0 or 1 mismatch
ProviderRows ==
    {p \in [phone : {"text", "nan"}, zip : {"number", "inf"},
            lookup : {"SUCCESS", "NOT_FOUND"}, mismatches : {0, 1}] :
        p.lookup = "NOT_FOUND" => p.mismatches = 0}

\* provider.to_dict() of a row
csv_dict(p) ==
    PyDict([npi_number |-> PyInt(1003),
            Phone |-> IF p.phone = "nan" THEN NaN ELSE PyStr(<<"3", "0", "-", "4", "9">>),
            Zip |-> IF p.zip = "inf" THEN Infinity ELSE PyFloat(RInt(80012))])

\* the value get_npi_provider_data returns for a row
npi_data_of(p) ==
    IF p.lookup = "SUCCESS"
    THEN PyDict([full_name |-> PyStr(<<"k", "e", " ", "r", "o">>), Phone |-> PyStr(<<"3", "0", "-", "4", "8">>),
                 status |-> PyStr(SUCCESS)])
    ELSE PyDict([first_name |-> PyStr(NOT_FOUND), last_name |-> PyStr(<<>>),
                 full_name |-> PyStr(NOT_FOUND), status |-> PyStr(NOT_FOUND)])

\* the entry validate_providers_from_csv appends for row number i
ResultOf(i, p, use_ai) ==
    PyDict([provider_id |-> PyInt(i),
            csv_data |-> csv_dict(p),
            npi_data |-> npi_data_of(p),
            mismatches |-> PyList(IF p.mismatches = 1
                                  THEN <<PyStr(<<"P", "H", "O", "N", "E", ":", " ", "3", "0", "-", "4", "9", " ", "v", "s", " ", "3", "0", "-", "4", "8">>)>>
                                  ELSE <<>>),
            ai_insights |-> PyList(IF use_ai /\ p.mismatches = 1
                                   THEN <<PyStr(<<"p", "h", "o", "n", "e", " ", "d", "i", "f", "f", "e", "r", "s">>)>>
                                   ELSE <<>>),
            match_status |-> PyStr(IF p.lookup # "SUCCESS" THEN NOT_FOUND
                                   ELSE IF p.mismatches = 0 THEN PERFECT_MATCH
                                   ELSE ONE_MISMATCHES),
            ai_enabled |-> PyBool(use_ai)])

\* the list validate_providers_from_csv returns for the rows
ResultsOf(rows, use_ai) ==
    PyList([i \in 1..Len(rows) |-> ResultOf(i, rows[i], use_ai)])

\* mismatch.split(':')[0]
RECURSIVE BeforeColon(_)
BeforeColon(s) ==
    IF s = <<>> \/ Head(s) = ":" THEN <<>>
    ELSE <<Head(s)>> \o BeforeColon(Tail(s))

\* sum(len(r[key]) for r in results), from position i on
RECURSIVE SumOfLens(_, _, _)
SumOfLens(rs, key, i) ==
    IF i > Len(rs) THEN 0
    ELSE Len(rs[i].v[key].v) + SumOfLens(rs, key, i + 1)

\* faulty variant: a perfect match is a result without mismatches
get_validation_summary_by_mismatches(results) ==
    LET rs == results.v
        total_providers == Len(rs)
        successful_lookups ==
            Cardinality({i \in 1..Len(rs) : rs[i].v["npi_data"].v["status"].v = SUCCESS})
        perfect_matches ==
            Cardinality({i \in 1..Len(rs) : rs[i].v["mismatches"].v = <<>>})
        found == UNION {{<<i, j>> : j \in 1..Len(rs[i].v["mismatches"].v)} :
                           i \in 1..Len(rs)}
        TypeOf(ij) == BeforeColon(rs[ij[1]].v["mismatches"].v[ij[2]].v)
        mismatch_types ==
            [ty \in {TypeOf(ij) : ij \in found} |->
                PyInt(Cardinality({ij \in found : TypeOf(ij) = ty}))]
    IN  PyDict([total_providers |-> PyInt(total_providers),
                successful_lookups |-> PyInt(successful_lookups),
                perfect_matches |-> PyInt(perfect_matches),
                ai_insights_count |-> PyInt(SumOfLens(rs, "ai_insights", 1)),
                mismatch_types |-> PyDict(mismatch_types),
                success_rate |->
                    IF total_providers > 0
                    THEN PyFloat(Rat(successful_lookups * 100, total_providers))
                    ELSE PyInt(0),
                match_rate |->
                    IF successful_lookups > 0
                    THEN PyFloat(Rat(perfect_matches * 100, successful_lookups))
                    ELSE PyInt(0)])

get_validation_summary(results) ==
    LET rs == results.v
        total_providers == Len(rs)
        successful_lookups ==
            Cardinality({i \in 1..Len(rs) : rs[i].v["npi_data"].v["status"].v = SUCCESS})
        perfect_matches ==
            Cardinality({i \in 1..Len(rs) : rs[i].v["match_status"].v = PERFECT_MATCH})
        found == UNION {{<<i, j>> : j \in 1..Len(rs[i].v["mismatches"].v)} :
                           i \in 1..Len(rs)}
        TypeOf(ij) == BeforeColon(rs[ij[1]].v["mismatches"].v[ij[2]].v)
        mismatch_types ==
            [ty \in {TypeOf(ij) : ij \in found} |->
                PyInt(Cardinality({ij \in found : TypeOf(ij) = ty}))]
    IN  PyDict([total_providers |-> PyInt(total_providers),
                successful_lookups |-> PyInt(successful_lookups),
                perfect_matches |-> PyInt(perfect_matches),
                ai_insights_count |-> PyInt(SumOfLens(rs, "ai_insights", 1)),
                mismatch_types |-> PyDict(mismatch_types),
                success_rate |->
                    IF total_providers > 0
                    THEN PyFloat(Rat(successful_lookups * 100, total_providers))
                    ELSE PyInt(0),
                match_rate |->
                    IF successful_lookups > 0
                    THEN PyFloat(Rat(perfect_matches * 100, successful_lookups))
                    ELSE PyInt(0)])

\* the position of the last "." of s, 0 when there is none
RECURSIVE LastDot(_)
LastDot(s) ==
    IF s = <<>> THEN 0
    ELSE IF s[Len(s)] = "." THEN Len(s)
    ELSE LastDot(SubSeq(s, 1, Len(s) - 1))

\* '.' in filename and filename.rsplit('.', 1)[1].lower() in ALLOWED_EXTENSIONS
allowed_file(filename) ==
    /\ LastDot(filename) > 0
    /\ Lower(SubSeq(filename, LastDot(filename) + 1, Len(filename))) = <<"c", "s", "v">>

\* jsonify({"error": message}), status
ErrorResponse(status, message) ==
    [status |-> status, body |-> PyDict([error |-> PyStr(message)])]

\* jsonify({"success": True, "summary": .., "results": .., "total_processed": ..})
SuccessResponse(summary, results, total) ==
    [status |-> 200,
     body |-> PyDict([success |-> PyBool(TRUE), summary |-> summary,
                      results |-> results, total_processed |-> PyInt(total)])]

\* faulty variant: the except branch leaves the upload in the folder
validate_csv_without_cleanup(req, files) ==
    IF ~req.has_file \/ req.filename = <<>> \/ ~allowed_file(req.filename)
    THEN [response |-> ErrorResponse(400, <<"e">>), uploads |-> files]
    ELSE LET file_path == <<"i", "d", "_">> \o req.filename
             saved == files \cup {file_path}
             failed == ErrorResponse(500, <<"e">>)
             results == ResultsOf(req.rows, req.use_ai)
         IN  IF ~req.save_ok
             THEN [response |-> failed,
                   uploads |-> IF req.save_partial THEN saved ELSE files]
             ELSE IF req.raises \/ ~req.remove_ok
             THEN [response |-> failed, uploads |-> saved]
             ELSE [response |-> SuccessResponse(sanitize(get_validation_summary(results)),
                                                sanitize(results), Len(results.v)),
                   uploads |-> saved \ {file_path}]

\* the handler of POST /api/validate: the response, and the uploads folder after it
validate_csv(req, files) ==
    IF ~req.has_file
    THEN [response |-> ErrorResponse(400, <<"N", "o", " ", "f", "i", "l", "e", " ", "p", "r", "o", "v", "i", "d", "e", "d">>), uploads |-> files]
    ELSE IF req.filename = <<>>
    THEN [response |-> ErrorResponse(400, <<"N", "o", " ", "f", "i", "l", "e", " ", "s", "e", "l", "e", "c", "t", "e", "d">>), uploads |-> files]
    ELSE IF ~allowed_file(req.filename)
    THEN [response |-> ErrorResponse(400, <<"O", "n", "l", "y", " ", "C", "S", "V", " ", "f", "i", "l", "e", "s", " ", "a", "r", "e", " ", "a", "l", "l", "o", "w", "e", "d">>),
          uploads |-> files]
    ELSE LET file_path == <<"i", "d", "_">> \o req.filename
             saved == files \cup {file_path}
             failed == ErrorResponse(500, <<"V", "a", "l", "i", "d", "a", "t", "i", "o", "n", " ", "f", "a", "i", "l", "e", "d", ":", " ", "e">>)
             results == ResultsOf(req.rows, req.use_ai)
             summary == get_validation_summary(results)
         IN  IF ~req.save_ok
             THEN [response |-> failed,
                   uploads |-> IF req.save_partial /\ ~req.remove_ok THEN saved
                               ELSE files]
             ELSE IF req.raises
             THEN [response |-> failed,
                   uploads |-> IF req.remove_ok THEN saved \ {file_path} ELSE saved]
             ELSE IF ~req.remove_ok THEN [response |-> failed, uploads |-> saved]
             ELSE [response |-> SuccessResponse(sanitize(summary), sanitize(results),
                                                Len(results.v)),
                   uploads |-> saved \ {file_path}]

\* the handler of GET /api/validate-sample
validate_sample(req) ==
    IF ~req.sample_exists THEN ErrorResponse(404, <<"S", "a", "m", "p", "l", "e", " ", "f", "i", "l", "e", " ", "n", "o", "t", " ", "f", "o", "u", "n", "d">>)
    ELSE IF req.raises THEN ErrorResponse(500, <<"S", "a", "m", "p", "l", "e", " ", "v", "a", "l", "i", "d", "a", "t", "i", "o", "n", " ", "f", "a", "i", "l", "e", "d", ":", " ", "e">>)
    ELSE LET results == ResultsOf(req.rows, req.use_ai)
             summary == get_validation_summary(results)
         IN  SuccessResponse(summary, results, Len(results.v))

\* the rows of a CSV file
RowLists == UNION {[1..n -> ProviderRows] : n \in 0..MaxProviders}

\* the requests explored, each with what its environment does: whether the
\* upload can be saved (and whether a failed save leaves a file behind) and
\* removed, and what validate_providers_from_csv does
Requests ==
    [endpoint : {"/api/validate"}, has_file : {FALSE}, filename : {<<>>},
     use_ai : {TRUE}, save_ok : {TRUE}, remove_ok : {TRUE}, sample_exists : {TRUE},
     save_partial : {FALSE}, raises : {FALSE}, rows : {<<>>}]
    \cup
    [endpoint : {"/api/validate"}, has_file : {TRUE},
     filename : {<<>>, <<"p", ".", "t", "x", "t">>, <<"c", "s", "v">>},
     use_ai : {TRUE}, save_ok : {TRUE}, remove_ok : {TRUE}, sample_exists : {TRUE},
     save_partial : {FALSE}, raises : {FALSE}, rows : {<<>>}]
    \cup
    [endpoint : {"/api/validate"}, has_file : {TRUE},
     filename : {<<"p", ".", "c", "s", "v">>, <<"p", ".", "C", "S", "V">>},
     use_ai : BOOLEAN, save_ok : {TRUE}, remove_ok : BOOLEAN, sample_exists : {TRUE},
     save_partial : {FALSE}, raises : {FALSE}, rows : RowLists]
    \cup
    [endpoint : {"/api/validate"}, has_file : {TRUE},
     filename : {<<"p", ".", "c", "s", "v">>},
     use_ai : {TRUE}, save_ok : BOOLEAN, remove_ok : BOOLEAN, sample_exists : {TRUE},
     save_partial : BOOLEAN, raises : {TRUE}, rows : {<<>>}]
    \cup
    [endpoint : {"/api/validate-sample"}, has_file : {FALSE}, filename : {<<>>},
     use_ai : BOOLEAN, save_ok : {TRUE}, remove_ok : {TRUE}, sample_exists : {TRUE},
     save_partial : {FALSE}, raises : {FALSE}, rows : RowLists]
    \cup
    [endpoint : {"/api/validate-sample"}, has_file : {FALSE}, filename : {<<>>},
     use_ai : {TRUE}, save_ok : {TRUE}, remove_ok : {TRUE}, sample_exists : BOOLEAN,
     save_partial : {FALSE}, raises : {TRUE}, rows : {<<>>}]

InitHttp ==
    /\ pc = "call"
    /\ request \in Requests
    /\ uploads = {}
    /\ response = Idle
    /\ field = Idle
    /\ extracted_value = Idle
    /\ method_value = Idle
    /\ extracted = Idle
    /\ method_name = Idle
    /\ method_result = Idle
    /\ fields = Idle
    /\ method_results = Idle
    /\ method_weights = Idle
    /\ field_weights = Idle
    /\ ret = Idle
    /\ ModuleLoaded /\ NoSession /\ NoThreads /\ NoPipeline /\ NoCsv

\* what a handler leaves alone
HttpFrame ==
    UNCHANGED <<field, extracted_value, method_value, extracted, method_name,
                method_result, fields, method_results, method_weights,
                field_weights, ret, module_globals, sessionVars, threadVars,
                request, pipelineVars, csvVars>>

\* one request to /api/validate
ValidateCsv ==
    /\ pc = "call"
    /\ request.endpoint = "/api/validate"
    /\ LET out == validate_csv(request, uploads)
       IN  /\ response' = out.response
           /\ uploads' = out.uploads
    /\ pc' = "done"
    /\ HttpFrame

\* one request to /api/validate-sample
ValidateSample ==
    /\ pc = "call"
    /\ request.endpoint = "/api/validate-sample"
    /\ response' = validate_sample(request)
    /\ uploads' = uploads
    /\ pc' = "done"
    /\ HttpFrame

NextHttp == ValidateCsv \/ ValidateSample

SpecHttp == InitHttp /\ [][NextHttp]_vars

----------------------------------------------------------------------------
(* Python floats: IEEE-754 binary64 with round-to-nearest-even.  A natural  *)
(* number is a sequence of limbs, least significant first, without leading  *)
(* zero limbs; a float is the significand m (53 bits) and the exponent e of *)
(* the value m * 2^e, and 0.0 is the empty significand.  Only the           *)
(* non-negative normal floats occur.                                        *)

LimbBits == 14

Base == 2 ^ LimbBits

Precision == 53

Limb(a, i) == IF i <= Len(a) THEN a[i] ELSE 0

RECURSIVE BigNorm(_)
BigNorm(a) ==
    IF a = <<>> THEN a
    ELSE IF a[Len(a)] = 0 THEN BigNorm(SubSeq(a, 1, Len(a) - 1))
    ELSE a

RECURSIVE BigOfInt(_)
BigOfInt(n) == IF n = 0 THEN <<>> ELSE <<n % Base>> \o BigOfInt(n \div Base)

RECURSIVE IntOfBig(_)
IntOfBig(a) == IF a = <<>> THEN 0 ELSE a[1] + Base * IntOfBig(Tail(a))

RECURSIVE BigAddFrom(_, _, _, _)
BigAddFrom(a, b, i, carry) ==
    IF i > Len(a) /\ i > Len(b) THEN (IF carry = 0 THEN <<>> ELSE <<carry>>)
    ELSE LET s == Limb(a, i) + Limb(b, i) + carry
         IN  <<s % Base>> \o BigAddFrom(a, b, i + 1, s \div Base)

BigAdd(a, b) == BigAddFrom(a, b, 1, 0)

\* a - b for a >= b
RECURSIVE BigSubFrom(_, _, _, _)
BigSubFrom(a, b, i, borrow) ==
    IF i > Len(a) THEN <<>>
    ELSE LET d == a[i] - Limb(b, i) - borrow
         IN  IF d < 0 THEN <<d + Base>> \o BigSubFrom(a, b, i + 1, 1)
             ELSE <<d>> \o BigSubFrom(a, b, i + 1, 0)

BigSub(a, b) == BigNorm(BigSubFrom(a, b, 1, 0))

RECURSIVE BigLessAt(_, _, _)
BigLessAt(a, b, i) ==
    IF i = 0 THEN FALSE
    ELSE IF a[i] # b[i] THEN a[i] < b[i]
    ELSE BigLessAt(a, b, i - 1)

BigLess(a, b) ==
    IF Len(a) # Len(b) THEN Len(a) < Len(b) ELSE BigLessAt(a, b, Len(a))

\* a * k for 0 <= k <= Base
RECURSIVE BigMulSmallFrom(_, _, _, _)
BigMulSmallFrom(a, k, i, carry) ==
    IF i > Len(a) THEN (IF carry = 0 THEN <<>> ELSE <<carry>>)
    ELSE LET p == a[i] * k + carry
         IN  <<p % Base>> \o BigMulSmallFrom(a, k, i + 1, p \div Base)

BigMulSmall(a, k) == IF k = 0 THEN <<>> ELSE BigMulSmallFrom(a, k, 1, 0)

BigShlLimbs(a, n) == IF a = <<>> THEN a ELSE [i \in 1..n |-> 0] \o a

RECURSIVE BigMulFrom(_, _, _)
BigMulFrom(a, b, i) ==
    IF i > Len(b) THEN <<>>
    ELSE BigAdd(BigShlLimbs(BigMulSmall(a, b[i]), i - 1), BigMulFrom(a, b, i + 1))

BigMul(a, b) == BigMulFrom(a, b, 1)

\* a * 2^n
BigShl(a, n) == BigShlLimbs(BigMulSmall(a, 2 ^ (n % LimbBits)), n \div LimbBits)

\* the quotient limbs of a / d for 0 < d <= Base, from limb i down
RECURSIVE BigDivSmallAt(_, _, _, _)
BigDivSmallAt(a, d, i, r) ==
    IF i = 0 THEN <<>>
    ELSE LET x == r * Base + a[i]
         IN  BigDivSmallAt(a, d, i - 1, x % d) \o <<x \div d>>

\* floor(a / 2^n)
BigShr(a, n) ==
    IF n \div LimbBits >= Len(a) THEN <<>>
    ELSE LET high == SubSeq(a, n \div LimbBits + 1, Len(a))
         IN  BigNorm(BigDivSmallAt(high, 2 ^ (n % LimbBits), Len(high), 0))

RECURSIVE SmallBitLen(_)
SmallBitLen(x) == IF x = 0 THEN 0 ELSE 1 + SmallBitLen(x \div 2)

BitLen(a) == IF a = <<>> THEN 0 ELSE LimbBits * (Len(a) - 1) + SmallBitLen(a[Len(a)])

BigIsOdd(a) == a # <<>> /\ a[1] % 2 = 1

\* floor(M / 2^s) rounded to nearest, ties to even; sticky tells that the
\* exact value lies strictly above M
RoundShift(M, s, sticky) ==
    LET q == BigShr(M, s)
        rem == BigSub(M, BigShl(q, s))
        half == BigShl(<<1>>, s - 1)
        up == \/ BigLess(half, rem)
              \/ rem = half /\ (sticky \/ BigIsOdd(q))
    IN  IF up THEN BigAdd(q, <<1>>) ELSE q

\* the float nearest to M * 2^e
RoundToFloat(M, e, sticky) ==
    IF M = <<>> THEN [m |-> <<>>, e |-> 0]
    ELSE IF BitLen(M) <= Precision
    THEN [m |-> BigShl(M, Precision - BitLen(M)), e |-> e - (Precision - BitLen(M))]
    ELSE LET s == BitLen(M) - Precision
             q == RoundShift(M, s, sticky)
         IN  IF BitLen(q) > Precision
             THEN [m |-> BigShr(q, 1), e |-> e + s + 1]
             ELSE [m |-> q, e |-> e + s]

FloatZero == [m |-> <<>>, e |-> 0]

FloatOfInt(n) == RoundToFloat(BigOfInt(n), 0, FALSE)

\* x * y
FloatMul(x, y) ==
    IF x.m = <<>> \/ y.m = <<>> THEN FloatZero
    ELSE RoundToFloat(BigMul(x.m, y.m), x.e + y.e, FALSE)

\* x + y
FloatAdd(x, y) ==
    IF x.m = <<>> THEN y
    ELSE IF y.m = <<>> THEN x
    ELSE LET hi == IF x.e >= y.e THEN x ELSE y
             lo == IF x.e >= y.e THEN y ELSE x
         IN  IF hi.e - lo.e > Precision + 1 THEN hi
             ELSE RoundToFloat(BigAdd(BigShl(hi.m, hi.e - lo.e), lo.m), lo.e, FALSE)

\* the largest k < Base with k * d <= r, found bit by bit from the top
RECURSIVE QuotientLimb(_, _, _, _)
QuotientLimb(r, d, bit, k) ==
    IF bit < 0 THEN k
    ELSE IF BigLess(r, BigMulSmall(d, k + 2 ^ bit)) THEN QuotientLimb(r, d, bit - 1, k)
    ELSE QuotientLimb(r, d, bit - 1, k + 2 ^ bit)

\* long division of r * Base^n by d for r < d: the quotient and the remainder
RECURSIVE LongDivision(_, _, _, _)
LongDivision(r, d, n, q) ==
    IF n = 0 THEN [q |-> BigNorm(q), r |-> r]
    ELSE LET r2 == BigShlLimbs(r, 1)
             k == QuotientLimb(r2, d, LimbBits - 1, 0)
         IN  LongDivision(BigSub(r2, BigMulSmall(d, k)), d, n - 1, <<k>> \o q)

GuardLimbs == 4

\* x / y for y # 0.0
FloatDiv(x, y) ==
    IF x.m = <<>> THEN FloatZero
    ELSE LET first == IF BigLess(x.m, y.m) THEN 0 ELSE 1
             start == IF BigLess(x.m, y.m) THEN x.m ELSE BigSub(x.m, y.m)
             qr == LongDivision(start, y.m, GuardLimbs, <<first>>)
         IN  RoundToFloat(qr.q, x.e - y.e - GuardLimbs * LimbBits, qr.r # <<>>)

\* the float of the decimal literal h/100, and of a value with two decimals
FloatOfHundredths(h) == FloatDiv(FloatOfInt(h), FloatOfInt(100))

\* the float of the rational x
FloatOfRat(x) == FloatDiv(FloatOfInt(x.n), FloatOfInt(x.d))

\* round(x, 2), in hundredths: the decimal nearest to the exact value of x,
\* ties to even
FloatRound2(x) ==
    IF x.m = <<>> THEN 0
    ELSE LET N == BigMulSmall(x.m, 100)
         IN  IF x.e >= 0 THEN IntOfBig(BigShl(N, x.e))
             ELSE IF 0 - x.e > BitLen(N) + 1 THEN 0
             ELSE IntOfBig(RoundShift(N, 0 - x.e, FALSE))

----------------------------------------------------------------------------
(* The scorer and the aggregator in float arithmetic: the weight tables     *)
(* hold floats, the sums and the quotients are rounded by every operation   *)

\* a weight table written with two decimals, as the floats it holds
FloatTable(table) == [k \in DOMAIN table |-> FloatOfHundredths(table[k])]

\* the claimed record of the rescaling caller: an eight-digit phone
ScaleClaimed ==
    [f \in Range(Fields) |->
        IF f = "phone" THEN <<"1", "2", "3", "4", "5", "7", "1", "2">> ELSE Canon[f]]

\* the phones a source may report: all, seven, one and none of the claimed
\* digits, in order
AllDigits == ScaleClaimed["phone"]

SevenDigits == <<"1", "2", "3", "4", "5", "7", "1", "9">>

OneDigit == <<"1", "9", "9", "9", "9", "9", "9", "9">>

NoDigit == <<"9", "9", "9", "9", "9", "9", "9", "9">>

\* a source that agrees with the claimed record but for the phone
Agreeing(p) == [f \in Range(Fields) |-> IF f = "phone" THEN p ELSE ScaleClaimed[f]]

\* a source that reports a phone only
PhoneOnly(p) == [f \in Range(Fields) |-> IF f = "phone" THEN p ELSE Null]

\* the records method m may return to the rescaling caller
ScaleRecords(m) ==
    CASE m = "npi_registry" -> {Agreeing(AllDigits), Agreeing(NoDigit)}
      [] m = "web_scrape" -> {Agreeing(SevenDigits), Agreeing(AllDigits), PhoneOnly(SevenDigits)}
      [] m = "google_maps" -> {PhoneOnly(OneDigit), PhoneOnly(AllDigits), Agreeing(OneDigit), Absent}

\* field_confidence_for_method over the values of the rescaling caller,
\* computed once
ScaleConfidenceTable ==
    [f \in Range(Fields) |->
        [a \in {ScaleClaimed[f]} |->
            [b \in {Null, ScaleClaimed[f], SevenDigits, OneDigit, NoDigit} |->
                field_confidence_for_method(f, a, b)]]]

\* the float returned by field_confidence_for_method(f, ext_val, m_val)
float_confidence(f, ext_val, m_val) == FloatOfRat(ScaleConfidenceTable[f][ext_val][m_val])

\* the loop `for f in fields` of compute_method_score, from position i on
RECURSIVE method_score_loop_float(_, _, _, _, _)
method_score_loop_float(ext, m_res, fs, i, acc) ==
    IF i > Len(fs) THEN acc
    ELSE LET f == fs[i]
             conf == float_confidence(f, Get(ext, f, Null), Get(m_res, f, Null))
             w == Get(FIELD_WEIGHTS, f, FloatZero)
         IN  method_score_loop_float(ext, m_res, fs, i + 1,
                 [breakdown |-> [g \in DOMAIN acc.breakdown \cup {f} |->
                                    IF g = f THEN FloatRound2(conf) ELSE acc.breakdown[g]],
                  weighted_sum |-> FloatAdd(acc.weighted_sum, FloatMul(conf, w)),
                  weight_total |-> FloatAdd(acc.weight_total, w)])

compute_method_score_float(m_name, ext, m_res, fs_arg) ==
    LET fs == IF fs_arg = NoList THEN Fields ELSE fs_arg
        acc == method_score_loop_float(ext, m_res, fs, 1,
                   [breakdown |-> EmptyDict, weighted_sum |-> FloatZero,
                    weight_total |-> FloatZero])
        method_score == IF acc.weight_total # FloatZero
                        THEN FloatDiv(acc.weighted_sum, acc.weight_total)
                        ELSE FloatZero
    IN  [method_score |-> FloatRound2(method_score), breakdown |-> acc.breakdown]

\* faulty variant: the denominator counts the methods
RECURSIVE combine_loop_float_count(_, _, _, _, _, _)
combine_loop_float_count(per_method_field, ms, m_weights, f, i, acc) ==
    IF i > Len(ms) THEN acc
    ELSE LET w == Get(m_weights, ms[i], FloatZero)
         IN  combine_loop_float_count(per_method_field, ms, m_weights, f, i + 1,
                 [num |-> FloatAdd(acc.num, FloatMul(per_method_field[ms[i]][f], w)),
                  den |-> FloatAdd(acc.den, FloatOfInt(1))])

\* the loop `for method_name, per_field in per_method_field.items()`, from i on
RECURSIVE combine_loop_float(_, _, _, _, _, _)
combine_loop_float(per_method_field, ms, m_weights, f, i, acc) ==
    IF i > Len(ms) THEN acc
    ELSE LET w == Get(m_weights, ms[i], FloatZero)
         IN  combine_loop_float(per_method_field, ms, m_weights, f, i + 1,
                 [num |-> FloatAdd(acc.num, FloatMul(per_method_field[ms[i]][f], w)),
                  den |-> FloatAdd(acc.den, w)])

compute_combined_field_confidences_float(ext, m_results, m_weights_arg) ==
    LET m_weights == IF m_weights_arg = NoTable THEN METHOD_WEIGHTS ELSE m_weights_arg
        per_method_field ==
            [m \in DOMAIN m_results |->
                [f \in Range(Fields) |->
                    float_confidence(f, Get(ext, f, Null), Get(m_results[m], f, Null))]]
        sums == [f \in Range(Fields) |->
                    combine_loop_float(per_method_field, MethodsOf(m_results), m_weights,
                                       f, 1, [num |-> FloatZero, den |-> FloatZero])]
    IN  [combined |->
            [f \in Range(Fields) |->
                FloatRound2(IF sums[f].den # FloatZero
                            THEN FloatDiv(sums[f].num, sums[f].den)
                            ELSE FloatZero)],
         per_method_field |->
            [m \in DOMAIN m_results |->
                [f \in Range(Fields) |->
                    ScaleConfidenceTable[f][Get(ext, f, Null)][Get(m_results[m], f, Null)]]]]

\* the loop `for f, conf in combined_field_confidences.items()`, from i on
RECURSIVE overall_loop_float(_, _, _, _, _)
overall_loop_float(combined, ks, f_weights, i, acc) ==
    IF i > Len(ks) THEN acc
    ELSE LET w == Get(f_weights, ks[i], FloatZero)
         IN  overall_loop_float(combined, ks, f_weights, i + 1,
                 [num |-> FloatAdd(acc.num, FloatMul(FloatOfHundredths(combined[ks[i]]), w)),
                  den |-> FloatAdd(acc.den, w)])

compute_overall_confidence_float(combined, f_weights_arg) ==
    LET f_weights == IF f_weights_arg = NoTable THEN FIELD_WEIGHTS ELSE f_weights_arg
        acc == overall_loop_float(combined, KeysOf(combined), f_weights, 1,
                                  [num |-> FloatZero, den |-> FloatZero])
    IN  FloatRound2(IF acc.den # FloatZero THEN FloatDiv(acc.num, acc.den) ELSE FloatZero)

evaluate_all_float(ext, m_results, m_weights_arg, f_weights_arg) ==
    LET comb == compute_combined_field_confidences_float(ext, m_results, m_weights_arg)
    IN  [method_scores |->
            [m \in DOMAIN m_results |->
                compute_method_score_float(m, ext, m_results[m], NoList)],
         combined_fields |-> comb.combined,
         per_method_field_confidences |-> comb.per_method_field,
         overall_confidence |-> compute_overall_confidence_float(comb.combined, f_weights_arg)]

----------------------------------------------------------------------------
(* A caller that evaluates, multiplies every weight of one table by a *)
(* constant and evaluates again                                       *)

MaxScale == 3

ScaleFactors == 2..MaxScale

\* table with every weight multiplied by k
Scaled(table, k) == [key \in DOMAIN table |-> FloatMul(table[key], FloatOfInt(k))]

InitScale ==
    /\ pc = "call"
    /\ function = "evaluate_all"
    /\ extracted = ScaleClaimed
    /\ \E reg \in ScaleRecords("npi_registry"), web \in ScaleRecords("web_scrape"),
          geo \in ScaleRecords("google_maps") :
          method_results =
              [m \in {k \in Range(Methods) : k # "google_maps" \/ geo # Absent} |->
                  CASE m = "npi_registry" -> reg
                    [] m = "web_scrape" -> web
                    [] m = "google_maps" -> geo]
    /\ method_weights = NoTable
    /\ field_weights = NoTable
    /\ module_globals = [FIELD_WEIGHTS |-> FloatTable(ModuleInit.FIELD_WEIGHTS),
                         METHOD_WEIGHTS |-> FloatTable(ModuleInit.METHOD_WEIGHTS)]
    /\ trace = <<>>
    /\ ret = Idle
    /\ combined_field_confidences = Idle
    /\ field = Idle
    /\ extracted_value = Idle
    /\ method_value = Idle
    /\ method_name = Idle
    /\ method_result = Idle
    /\ fields = Idle
    /\ NoThreads /\ NoHttp /\ NoPipeline /\ NoCsv

\* one call of evaluate_all, noted by the caller with the tables in force
EvaluateAllFloat ==
    /\ pc = "call"
    /\ function = "evaluate_all"
    /\ trace # Idle
    /\ ret' = evaluate_all_float(extracted, method_results, method_weights, field_weights)
    /\ trace' = Append(trace,
                    [method_weights |->
                        IF method_weights = NoTable THEN METHOD_WEIGHTS ELSE method_weights,
                     field_weights |-> FIELD_WEIGHTS,
                     ret |-> ret'])
    /\ pc' = "done"
    /\ UNCHANGED <<field, extracted_value, method_value, extracted, method_name,
                   method_result, fields, method_results, method_weights,
                   field_weights, module_globals, function,
                   combined_field_confidences, threadVars, httpVars,
                   pipelineVars, csvVars>>

\* the caller passes the method weight table multiplied by k
RescaleMethodWeights(k) ==
    /\ pc = "done"
    /\ Len(trace) = 1
    /\ method_weights' = Scaled(METHOD_WEIGHTS, k)
    /\ pc' = "call"
    /\ UNCHANGED <<field, extracted_value, method_value, extracted, method_name,
                   method_result, fields, method_results, field_weights, ret,
                   module_globals, sessionVars, threadVars, httpVars,
                   pipelineVars, csvVars>>

\* the configuration is edited: FIELD_WEIGHTS holds its weights multiplied by k
RescaleFieldWeights(k) ==
    /\ pc = "done"
    /\ Len(trace) = 1
    /\ module_globals' = [module_globals EXCEPT !.FIELD_WEIGHTS = Scaled(FIELD_WEIGHTS, k)]
    /\ pc' = "call"
    /\ UNCHANGED <<field, extracted_value, method_value, extracted, method_name,
                   method_result, fields, method_results, method_weights,
                   field_weights, ret, sessionVars, threadVars, httpVars,
                   pipelineVars, csvVars>>

NextScale ==
    \/ EvaluateAllFloat
    \/ \E k \in ScaleFactors : RescaleMethodWeights(k)
    \/ \E k \in ScaleFactors : RescaleFieldWeights(k)

SpecScale == InitScale /\ [][NextScale]_vars

----------------------------------------------------------------------------
(* A caller that evaluates, receives a corrected value from one source and *)
(* evaluates again                                                          *)

\* the method_results mappings of the revising caller
RevisionMethodResults ==
    SessionMethodResults
        \cup { [m \in {"npi_registry", "web_scrape"} |-> Canon],
               [m \in {"google_maps"} |-> Canon] }

InitRevision ==
    /\ pc = "call"
    /\ function = "evaluate_all"
    /\ extracted \in ClaimedRecords
    /\ method_results \in RevisionMethodResults
    /\ method_weights \in MethodWeightTables \cup NegativeMethodWeightTables
    /\ field_weights \in FieldWeightTables \cup NegativeFieldWeightTables
    /\ trace = <<>>
    /\ ret = Idle
    /\ combined_field_confidences = Idle
    /\ field = Idle
    /\ extracted_value = Idle
    /\ method_value = Idle
    /\ method_name = Idle
    /\ method_result = Idle
    /\ fields = Idle
    /\ ModuleLoaded /\ NoThreads /\ NoHttp /\ NoPipeline /\ NoCsv

\* one call of evaluate_all, noted by the caller
EvaluateAllNoted ==
    /\ pc = "call"
    /\ function = "evaluate_all"
    /\ trace # Idle
    /\ ret' = evaluate_all(extracted, method_results, method_weights, field_weights)
    /\ trace' = Append(trace, [function |-> function, args |-> ArgsOf(function),
                               ret |-> ret'])
    /\ pc' = "done"
    /\ UNCHANGED <<field, extracted_value, method_value, extracted, method_name,
                   method_result, fields, method_results, method_weights,
                   field_weights, module_globals, function,
                   combined_field_confidences, threadVars, httpVars,
                   pipelineVars, csvVars>>

\* source m now reports value v for field f
Revise(m, f, v) ==
    /\ pc = "done"
    /\ Len(trace) = 1
    /\ m \in DOMAIN method_results
    /\ method_results[m][f] # v
    /\ method_results' = [method_results EXCEPT ![m][f] = v]
    /\ pc' = "call"
    /\ UNCHANGED <<field, extracted_value, method_value, extracted, method_name,
                   method_result, fields, method_weights, field_weights, ret,
                   module_globals, sessionVars, threadVars, httpVars,
                   pipelineVars, csvVars>>

NextRevision ==
    \/ EvaluateAllNoted
    \/ \E m \in Range(Methods), f \in Range(Fields) :
          \E v \in ObservedValues(f) : Revise(m, f, v)

SpecRevision == InitRevision /\ [][NextRevision]_vars

----------------------------------------------------------------------------
(* The batch pipeline (Backend/main_pipeline.py, validation/validate_provider.py) *)

\* an exception raised by one of the validators of run_validations
ValidatorError == [raised |-> "Exception"]

\* what the three validators do for one provider: one of them raises, or each
\* returns its record
ValidatorOutcomes ==
    { ValidatorError,
      [m \in Range(Methods) |-> Canon],
      [m \in Range(Methods) |-> Observed[m]],
      [m \in Range(Methods) |-> IF m = "google_maps" THEN GeocodeRecord ELSE Observed[m]] }

\* the dict run_validations builds from what evaluate_all returned
validation_summary(out) ==
    IF Raised(out) THEN out
    ELSE [method_confidences |->
              [m \in DOMAIN out.method_scores |-> out.method_scores[m].method_score],
          combined_field_confidences |-> out.combined_fields,
          overall_confidence |-> out.overall_confidence]

\* run_validations(extracted), given what the validators did
run_validations(ext, validated) ==
    IF Raised(validated) THEN validated
    ELSE validation_summary(evaluate_all(ext, validated, NoTable, NoTable))

\* {**a, **b}
Merge(a, b) ==
    [k \in DOMAIN a \cup DOMAIN b |-> IF k \in DOMAIN b THEN b[k] ELSE a[k]]

\* faulty variant: the except branch keeps the provider in the list
process_providers_body_keeps_failed(collected, provider, result) ==
    IF Raised(result) THEN Append(collected, provider)
    ELSE Append(collected, Merge(provider, result))

\* the body of the loop of process_providers: all_results after the try
\* statement, result being what run_validations(provider) did
process_providers_body(collected, provider, result) ==
    IF Raised(result) THEN collected
    ELSE Append(collected, Merge(provider, result))

\* the providers extract_from_csv and extract_from_pdf build: every key is set
PipelineProviders == {r \in ClaimedRecords : DOMAIN r = Range(Fields)}

ProviderLists == UNION {[1..n -> PipelineProviders] : n \in 0..MaxProviders}

InitPipeline ==
    /\ pc = "call"
    /\ providers \in ProviderLists
    /\ idx = Idle
    /\ all_results = Idle
    /\ trace = <<>>
    /\ function = Idle
    /\ combined_field_confidences = Idle
    /\ field = Idle
    /\ extracted_value = Idle
    /\ method_value = Idle
    /\ extracted = Idle
    /\ method_name = Idle
    /\ method_result = Idle
    /\ fields = Idle
    /\ method_results = Idle
    /\ method_weights = Idle
    /\ field_weights = Idle
    /\ ret = Idle
    /\ ModuleLoaded /\ NoThreads /\ NoHttp /\ NoCsv

\* what process_providers leaves alone
PipelineFrame ==
    UNCHANGED <<field, extracted_value, method_value, extracted, method_name,
                method_result, fields, method_results, method_weights,
                field_weights, module_globals, function,
                combined_field_confidences, threadVars, httpVars, csvVars,
                providers>>

\* process_providers is entered: all_results = []
ProcessProviders ==
    /\ pc = "call"
    /\ all_results' = <<>>
    /\ idx' = 1
    /\ pc' = "loop"
    /\ UNCHANGED <<ret, trace>>
    /\ PipelineFrame

\* one turn of the loop: the try statement for providers[idx - 1]
ValidateProvider(validated) ==
    /\ pc = "loop"
    /\ idx <= Len(providers)
    /\ \E result \in {run_validations(providers[idx], validated)} :
          /\ all_results' = process_providers_body(all_results, providers[idx], result)
          /\ trace' = Append(trace, [function |-> "run_validations",
                                     args |-> providers[idx], ret |-> result])
    /\ idx' = idx + 1
    /\ UNCHANGED <<pc, ret>>
    /\ PipelineFrame

\* the loop is over: return all_results
ReturnAllResults ==
    /\ pc = "loop"
    /\ idx > Len(providers)
    /\ ret' = all_results
    /\ pc' = "done"
    /\ UNCHANGED <<idx, all_results, trace>>
    /\ PipelineFrame

NextPipeline ==
    \/ ProcessProviders
    \/ \E validated \in ValidatorOutcomes : ValidateProvider(validated)
    \/ ReturnAllResults

SpecPipeline == InitPipeline /\ [][NextPipeline]_vars

----------------------------------------------------------------------------
(* The CSV validator (Backend/npi_matcher.py): validate_providers_from_csv *)

LowerLetters == <<"a", "b", "c", "d", "e", "f", "g", "h", "i", "j", "k", "l", "m", "n", "o", "p", "q", "r", "s", "t", "u", "v", "w", "x", "y", "z">>

UpperLetters == <<"A", "B", "C", "D", "E", "F", "G", "H", "I", "J", "K", "L", "M", "N", "O", "P", "Q", "R", "S", "T", "U", "V", "W", "X", "Y", "Z">>

\* str.upper() of one character
UpperChar(c) ==
    IF \E i \in 1..Len(LowerLetters) : LowerLetters[i] = c
    THEN UpperLetters[CHOOSE i \in 1..Len(LowerLetters) : LowerLetters[i] = c]
    ELSE c

\* str.upper()
Upper(s) == [i \in 1..Len(s) |-> UpperChar(s[i])]

DecimalDigits == <<"0", "1", "2", "3", "4", "5", "6", "7", "8", "9">>

\* str(n) of a natural number
RECURSIVE str_of_int(_)
str_of_int(n) ==
    IF n < 10 THEN <<DecimalDigits[n + 1]>>
    ELSE str_of_int(n \div 10) \o <<DecimalDigits[(n % 10) + 1]>>

\* the characters of a dict key
KeyChars(key) ==
    CASE key = "first_name" -> <<"f", "i", "r", "s", "t", "_", "n", "a", "m", "e">>
      [] key = "last_name" -> <<"l", "a", "s", "t", "_", "n", "a", "m", "e">>
      [] key = "Credential" -> <<"C", "r", "e", "d", "e", "n", "t", "i", "a", "l">>
      [] key = "City" -> <<"C", "i", "t", "y">>
      [] key = "State" -> <<"S", "t", "a", "t", "e">>
      [] key = "Zip" -> <<"Z", "i", "p">>
      [] key = "Phone" -> <<"P", "h", "o", "n", "e">>
      [] key = "Status" -> <<"S", "t", "a", "t", "u", "s">>
      [] key = "Speciality" -> <<"S", "p", "e", "c", "i", "a", "l", "i", "t", "y">>
      [] key = "Address" -> <<"A", "d", "d", "r", "e", "s", "s">>
      [] key = "License_number" -> <<"L", "i", "c", "e", "n", "s", "e", "_", "n", "u", "m", "b", "e", "r">>
      [] key = "npi_number" -> <<"n", "p", "i", "_", "n", "u", "m", "b", "e", "r">>

\* the exceptions of the validator
KeyError(key) == [raised |-> "KeyError", message |-> KeyChars(key)]

RuntimeError(message) == [raised |-> "RuntimeError", message |-> message]

Exception(message) == [raised |-> "Exception", message |-> message]

ERROR == <<"E", "R", "R", "O", "R">>

NA == <<"N", "/", "A">>

ACTIVE == <<"A", "C", "T", "I", "V", "E">>

INACTIVE == <<"I", "N", "A", "C", "T", "I", "V", "E">>

UNKNOWN == <<"U", "N", "K", "N", "O", "W", "N">>

MATCH == <<"M", "A", "T", "C", "H">>

MISMATCH == <<"M", "I", "S", "M", "A", "T", "C", "H">>

UNCERTAIN == <<"U", "N", "C", "E", "R", "T", "A", "I", "N">>

SAME == <<"S", "A", "M", "E">>

DIFFERENT == <<"D", "I", "F", "F", "E", "R", "E", "N", "T">>

\* an answer of the language model that is none of the options asked for
Chatter == <<"S", "u", "r", "e">>

\* normalize_status_with_ai(status_text), ai_response being what openai_call returned
normalize_status_with_ai(ai_response) ==
    IF ai_response # <<>> /\ ai_response \in {ACTIVE, INACTIVE, UNKNOWN}
    THEN PyStr(ai_response)
    ELSE RuntimeError(<<"O", "p", "e", "n", "A", "I", " ", "A", "P", "I", " ", "f", "a", "i", "l", "e", "d", " ", "t", "o", " ", "r", "e", "t", "u", "r", "n", " ", "a", " ", "v", "a", "l", "i", "d", " ", "r", "e", "s", "p", "o", "n", "s", "e", " ", "f", "o", "r", " ", "s", "t", "a", "t", "u", "s", " ", "n", "o", "r", "m", "a", "l", "i", "z", "a", "t", "i", "o", "n", ".">>)

\* map_procedure_to_specialty(procedure, current_specialty)
map_procedure_to_specialty(ai_response) ==
    IF ai_response # <<>> /\ ai_response \in {MATCH, MISMATCH, UNCERTAIN}
    THEN PyStr(ai_response)
    ELSE RuntimeError(<<"O", "p", "e", "n", "A", "I", " ", "A", "P", "I", " ", "f", "a", "i", "l", "e", "d", " ", "t", "o", " ", "r", "e", "t", "u", "r", "n", " ", "a", " ", "v", "a", "l", "i", "d", " ", "r", "e", "s", "p", "o", "n", "s", "e", " ", "f", "o", "r", " ", "p", "r", "o", "c", "e", "d", "u", "r", "e", "-", "s", "p", "e", "c", "i", "a", "l", "t", "y", " ", "m", "a", "p", "p", "i", "n", "g", ".">>)

\* compare_address_ai(csv_addr, npi_addr)
compare_address_ai(ai_response) ==
    IF ai_response # <<>> /\ ai_response \in {SAME, DIFFERENT}
    THEN PyStr(ai_response)
    ELSE RuntimeError(<<"O", "p", "e", "n", "A", "I", " ", "A", "P", "I", " ", "f", "a", "i", "l", "e", "d", " ", "t", "o", " ", "r", "e", "t", "u", "r", "n", " ", "a", " ", "v", "a", "l", "i", "d", " ", "r", "e", "s", "p", "o", "n", "s", "e", " ", "f", "o", "r", " ", "a", "d", "d", "r", "e", "s", "s", " ", "c", "o", "m", "p", "a", "r", "i", "s", "o", "n", ".">>)

\* the columns a provider file is expected to have
ExpectedColumns ==
    {"npi_number", "first_name", "last_name", "Status", "Speciality", "Address",
     "License_number", "Phone"}

\* the cells of the two providers the explored files hold
ProviderCells ==
    << [npi_number |-> <<"1", "0", "0", "3">>, first_name |-> <<"k", "e">>, last_name |-> <<"r", "o">>,
        Status |-> <<"A">>, Speciality |-> <<"P", "e", "d">>, Address |-> <<"1", "5", " ", "s", " ", "s", "t">>,
        License_number |-> <<"a", "1">>, Phone |-> <<"3", "0", "-", "4", "9">>],
       [npi_number |-> <<"1", "0", "0", "4">>, first_name |-> <<"k", "e", "v">>, last_name |-> <<"r", "o">>,
        Status |-> <<"I">>, Speciality |-> <<"C", "a", "r", "d">>, Address |-> <<"1", "5", " ", "s", " ", "s", "t">>,
        License_number |-> <<"b", "2">>, Phone |-> <<"3", "0", "-", "4", "7">>] >>

\* provider.to_dict() of the row of provider k in a file with the columns cols
CsvRow(k, cols) == PyDict([c \in cols |-> PyStr(ProviderCells[k][c])])

\* the sets of columns of the explored files: all expected columns, or all but one
ColumnSets ==
    {ExpectedColumns, ExpectedColumns \ {"Status"}, ExpectedColumns \ {"npi_number"}}

\* a file pandas cannot read a table from
EmptyFile == [empty |-> TRUE]

\* the files at csv_file_path: their columns, and the provider of each row
CsvFiles ==
    {EmptyFile} \cup
    [columns : ColumnSets,
     rows : UNION {[1..n -> 1..Len(ProviderCells)] : n \in 0..MaxProviders}]

\* what the registry answers to one lookup: a provider with or without a
\* practice address and a taxonomy, no provider, or no answer in time or at all
LookupOutcomes == {"found", "found_bare", "not_found", "timeout", "network"}

\* extract_all_provider_info(provider) of the provider the registry returned
extract_all_provider_info(outcome) ==
    LET located == outcome = "found"
    IN  [first_name |-> PyStr(<<"K", "E">>),
         last_name |-> PyStr(<<"R", "O">>),
         full_name |-> PyStr(<<"K", "E", " ", "R", "O">>),
         Credential |-> PyStr(<<"M", "D">>),
         Status |-> PyStr(ACTIVE),
         Address |-> PyStr(IF located THEN <<"1", "5", " ", "S", " ", "S", "T">> ELSE NA),
         City |-> PyStr(IF located THEN <<"A", "U">> ELSE NA),
         State |-> PyStr(IF located THEN <<"C", "O">> ELSE NA),
         Zip |-> PyStr(IF located THEN <<"8", "0", "0", "1", "2">> ELSE NA),
         Phone |-> PyStr(IF located THEN <<"3", "0", "-", "4", "9">> ELSE NA),
         Speciality |-> PyStr(IF located THEN <<"P", "e", "d">> ELSE NA),
         License_number |-> PyStr(IF located THEN <<"A", "1">> ELSE NA),
         Education |-> PyStr(<<"N", "/", "A", " ", "-", " ", "N", "o", "t", " ", "a", "v", "a", "i", "l", "a", "b", "l", "e", " ", "i", "n", " ", "N", "P", "I", " ", "r", "e", "g", "i", "s", "t", "r", "y">>),
         enumeration_date |-> PyStr(<<"2", "0", "0", "5">>),
         last_updated |-> PyStr(<<"2", "0", "2", "0">>),
         gender |-> PyStr(<<"M">>)]

\* get_npi_provider_data(npi_number), outcome being what the registry did
get_npi_provider_data(outcome) ==
    IF outcome \in {"found", "found_bare"}
    THEN PyDict(Merge(extract_all_provider_info(outcome), [status |-> PyStr(SUCCESS)]))
    ELSE IF outcome = "not_found"
    THEN PyDict([first_name |-> PyStr(NOT_FOUND), last_name |-> PyStr(<<>>),
                 full_name |-> PyStr(NOT_FOUND), status |-> PyStr(NOT_FOUND)])
    ELSE IF outcome = "timeout"
    THEN PyDict([first_name |-> PyStr(ERROR), last_name |-> PyStr(<<>>),
                 full_name |-> PyStr(<<"E", "R", "R", "O", "R", ":", " ", "R", "e", "q", "u", "e", "s", "t", " ", "t", "i", "m", "e", "o", "u", "t">>),
                 status |-> PyStr(ERROR)])
    ELSE PyDict([first_name |-> PyStr(ERROR), last_name |-> PyStr(<<>>),
                 full_name |-> PyStr(<<"E", "R", "R", "O", "R", ":", " ", "N", "e", "t", "w", "o", "r", "k", " ", "e", "r", "r", "o", "r", " ", "-", " ", "e">>),
                 status |-> PyStr(ERROR)])

\* dict.get(key, '') of a dict of strings
GetCell(dict, key) == IF key \in DOMAIN dict.v THEN dict.v[key].v ELSE <<>>

\* f"{label}: CSV '{a}' {sep} NPI '{b}'"
MismatchText(label, a, sep, b) ==
    PyStr(label \o <<":", " ", "C", "S", "V", " ", "'">> \o a \o <<"'", " ">> \o sep \o <<" ", "N", "P", "I", " ", "'">> \o b \o <<"'">>)

fields_to_check ==
    <<"first_name", "last_name", "Credential", "City", "State", "Zip", "Phone">>

\* the loop of check_data_match_basic, from position i on
RECURSIVE basic_loop(_, _, _)
basic_loop(csv_provider, npi_data, i) ==
    IF i > Len(fields_to_check) THEN <<>>
    ELSE LET f == fields_to_check[i]
             csv_val == Upper(GetCell(csv_provider, f))
             npi_val == Upper(GetCell(npi_data, f))
             rest == basic_loop(csv_provider, npi_data, i + 1)
         IN  IF csv_val # npi_val /\ csv_val # <<>> /\ npi_val # <<>> /\ npi_val # NA
             THEN <<MismatchText(Upper(KeyChars(f)), GetCell(csv_provider, f), <<"v", "s">>,
                                 GetCell(npi_data, f))>> \o rest
             ELSE rest

\* check_data_match_basic(csv_provider, npi_data): the list of mismatches
check_data_match_basic(csv_provider, npi_data) == basic_loop(csv_provider, npi_data, 1)


\* the answers the language model may give for one provider, in the order
\* asked: the status of the file, the status of the registry, the specialty
\* and the address
AiAnswers ==
    { [csv_status |-> ACTIVE, npi_status |-> ACTIVE, specialty |-> MATCH, address |-> SAME],
      [csv_status |-> INACTIVE, npi_status |-> ACTIVE, specialty |-> UNCERTAIN, address |-> SAME],
      [csv_status |-> UNKNOWN, npi_status |-> UNKNOWN, specialty |-> MISMATCH, address |-> DIFFERENT],
      [csv_status |-> INACTIVE, npi_status |-> ACTIVE, specialty |-> MISMATCH, address |-> DIFFERENT],
      [csv_status |-> Chatter, npi_status |-> ACTIVE, specialty |-> MATCH, address |-> SAME],
      [csv_status |-> ACTIVE, npi_status |-> ACTIVE, specialty |-> MISMATCH, address |-> <<>>] }

\* enhanced_validate_provider(csv_provider, npi_data): the mismatches and the
\* insights, or the exception raised, answers being what openai_call returns
enhanced_validate_provider(csv_provider, npi_data, answers) ==
    LET csv == csv_provider.v
        npi == npi_data.v
        csv_status_normalized == normalize_status_with_ai(answers.csv_status)
        npi_status_normalized == normalize_status_with_ai(answers.npi_status)
        specialty_match == map_procedure_to_specialty(answers.specialty)
        address_match == compare_address_ai(answers.address)
        status_mismatches ==
            IF csv_status_normalized # npi_status_normalized
            THEN <<MismatchText(<<"S", "T", "A", "T", "U", "S">>, csv["Status"].v, <<"→">>, npi["Status"].v)>>
            ELSE <<>>
        status_insights ==
            IF csv_status_normalized # npi_status_normalized
            THEN <<PyStr(<<"A", "I", " ", "n", "o", "r", "m", "a", "l", "i", "z", "e", "d", " ", "s", "t", "a", "t", "u", "s", ":", " ", "C", "S", "V", " ", "'">> \o csv_status_normalized.v
                         \o <<"'", " ", "v", "s", " ", "N", "P", "I", " ", "'">> \o npi_status_normalized.v \o <<"'">>)>>
            ELSE <<>>
        specialty_mismatches ==
            IF specialty_match = PyStr(MISMATCH)
            THEN <<MismatchText(<<"S", "P", "E", "C", "I", "A", "L", "T", "Y">>, csv["Speciality"].v, <<"v", "s">>,
                                npi["Speciality"].v)>>
            ELSE <<>>
        specialty_insights ==
            IF specialty_match = PyStr(MISMATCH)
            THEN <<PyStr(<<"A", "I", " ", "d", "e", "t", "e", "c", "t", "e", "d", " ", "s", "p", "e", "c", "i", "a", "l", "t", "y", "/", "p", "r", "o", "c", "e", "d", "u", "r", "e", " ", "m", "i", "s", "m", "a", "t", "c", "h">>)>>
            ELSE IF specialty_match = PyStr(MATCH)
            THEN <<PyStr(<<"A", "I", " ", "c", "o", "n", "f", "i", "r", "m", "e", "d", " ", "s", "p", "e", "c", "i", "a", "l", "t", "y", "/", "p", "r", "o", "c", "e", "d", "u", "r", "e", " ", "c", "o", "m", "p", "a", "t", "i", "b", "i", "l", "i", "t", "y">>)>>
            ELSE <<>>
        address_mismatches ==
            IF address_match = PyStr(DIFFERENT)
            THEN <<MismatchText(<<"A", "D", "D", "R", "E", "S", "S">>, csv["Address"].v, <<"v", "s">>, npi["Address"].v)>>
            ELSE <<>>
        address_insights ==
            IF address_match = PyStr(DIFFERENT) THEN <<>>
            ELSE <<PyStr(<<"A", "I", " ", "c", "o", "n", "f", "i", "r", "m", "e", "d", " ", "a", "d", "d", "r", "e", "s", "s", "e", "s", " ", "r", "e", "p", "r", "e", "s", "e", "n", "t", " ", "s", "a", "m", "e", " ", "l", "o", "c", "a", "t", "i", "o", "n">>)>>
        license_mismatches ==
            IF /\ GetCell(csv_provider, "License_number") # <<>>
               /\ npi["License_number"].v # NA
               /\ Upper(csv["License_number"].v) # Upper(npi["License_number"].v)
            THEN <<MismatchText(<<"L", "I", "C", "E", "N", "S", "E">>, csv["License_number"].v, <<"v", "s">>,
                                npi["License_number"].v)>>
            ELSE <<>>
    IN  IF "Status" \notin DOMAIN csv THEN KeyError("Status")
        ELSE IF Raised(csv_status_normalized) THEN csv_status_normalized
        ELSE IF Raised(npi_status_normalized) THEN npi_status_normalized
        ELSE IF "Speciality" \notin DOMAIN csv THEN KeyError("Speciality")
        ELSE IF Raised(specialty_match) THEN specialty_match
        ELSE IF "Address" \notin DOMAIN csv THEN KeyError("Address")
        ELSE IF Raised(address_match) THEN address_match
        ELSE [mismatches |-> status_mismatches \o specialty_mismatches
                                \o address_mismatches \o license_mismatches,
              ai_insights |-> status_insights \o specialty_insights \o address_insights]

\* faulty variant: a provider with mismatches is reported as a perfect match
match_status_always_perfect(mismatches) == PERFECT_MATCH

\* "PERFECT_MATCH" if len(mismatches) == 0 else f"{len(mismatches)}_MISMATCHES"
match_status_of(mismatches) ==
    IF Len(mismatches) = 0 THEN PERFECT_MATCH
    ELSE str_of_int(Len(mismatches)) \o <<"_", "M", "I", "S", "M", "A", "T", "C", "H", "E", "S">>

\* faulty variant: a comparison that raises counts as one without findings
compare_provider_lenient(csv_data, npi_data, ai_enabled, answers) ==
    IF ai_enabled /\ ~Raised(enhanced_validate_provider(csv_data, npi_data, answers))
    THEN enhanced_validate_provider(csv_data, npi_data, answers)
    ELSE [mismatches |-> check_data_match_basic(csv_data, npi_data),
          ai_insights |-> <<>>]

\* the comparison validate_providers_from_csv runs after a successful lookup
compare_provider(csv_data, npi_data, ai_enabled, answers) ==
    IF ai_enabled THEN enhanced_validate_provider(csv_data, npi_data, answers)
    ELSE [mismatches |-> check_data_match_basic(csv_data, npi_data),
          ai_insights |-> <<>>]

\* the entry validate_providers_from_csv appends for a row, compared being
\* what the comparison returned for it (not run when the lookup failed)
row_result(provider_num, csv_data, npi_data, compared, ai_enabled) ==
    LET found == npi_data.v["status"].v = SUCCESS
    IN  PyDict([provider_id |-> PyInt(provider_num),
                csv_data |-> csv_data,
                npi_data |-> npi_data,
                mismatches |-> PyList(IF found THEN compared.mismatches ELSE <<>>),
                ai_insights |-> PyList(IF found THEN compared.ai_insights ELSE <<>>),
                match_status |-> PyStr(IF found THEN match_status_of(compared.mismatches)
                                       ELSE npi_data.v["status"].v),
                ai_enabled |-> PyBool(ai_enabled)])

\* the exception validate_providers_from_csv raises for an exception e of its body
reraised(e) ==
    IF e.raised = "KeyError"
    THEN Exception(<<"M", "i", "s", "s", "i", "n", "g", " ", "r", "e", "q", "u", "i", "r", "e", "d", " ", "c", "o", "l", "u", "m", "n", ":", " ", "'">> \o e.message \o <<"'">>)
    ELSE e

\* df.head(n)
head(rows, n) ==
    IF n >= 0 THEN SubSeq(rows, 1, IF n < Len(rows) THEN n ELSE Len(rows))
    ELSE SubSeq(rows, 1, IF Len(rows) + n > 0 THEN Len(rows) + n ELSE 0)

\* the integers passed as the argument limit, when it is not None
LimitNumbers == {0, 1, -1}

\* the rows of the file at csv_file_path, as pd.read_csv returns them
read_csv(file) ==
    [i \in 1..Len(file.rows) |-> CsvRow(file.rows[i], file.columns)]

InitCsv ==
    /\ pc = "call"
    /\ csv_file \in CsvFiles
    /\ \E ai_enabled \in BOOLEAN :
          \/ csv_args = [use_ai |-> ai_enabled, limit |-> PyNone]
          \/ \E n \in LimitNumbers : csv_args = [use_ai |-> ai_enabled, limit |-> PyInt(n)]
    /\ df = Idle
    /\ index = Idle
    /\ csv_results = Idle
    /\ csv_summary = Idle
    /\ trace = <<>>
    /\ function = Idle
    /\ combined_field_confidences = Idle
    /\ field = Idle
    /\ extracted_value = Idle
    /\ method_value = Idle
    /\ extracted = Idle
    /\ method_name = Idle
    /\ method_result = Idle
    /\ fields = Idle
    /\ method_results = Idle
    /\ method_weights = Idle
    /\ field_weights = Idle
    /\ ret = Idle
    /\ ModuleLoaded /\ NoThreads /\ NoHttp /\ NoPipeline

\* what validate_providers_from_csv and get_validation_summary leave alone
CsvFrame ==
    UNCHANGED <<field, extracted_value, method_value, extracted, method_name,
                method_result, fields, method_results, method_weights,
                field_weights, module_globals, function,
                combined_field_confidences, threadVars, httpVars, pipelineVars,
                csv_file, csv_args>>

\* validate_providers_from_csv is entered and reads the file: it raises for
\* an empty file, and otherwise starts the loop with results = []
ReadCsv ==
    /\ pc = "call"
    /\ IF csv_file = EmptyFile
       THEN /\ ret' = Exception(<<"C", "S", "V", " ", "f", "i", "l", "e", " ", "i", "s", " ", "e", "m", "p", "t", "y">>)
            /\ pc' = "done"
            /\ UNCHANGED <<df, index, csv_results>>
       ELSE /\ df' = IF csv_args.limit.t = "int" /\ csv_args.limit.v # 0
                     THEN head(read_csv(csv_file), csv_args.limit.v)
                     ELSE read_csv(csv_file)
            /\ csv_results' = <<>>
            /\ index' = 0
            /\ pc' = "loop"
            /\ ret' = ret
    /\ UNCHANGED <<csv_summary, trace>>
    /\ CsvFrame

\* one turn of the loop, for the row at position index: the lookup, the
\* comparison when the lookup succeeded, and the append, or the exception
ValidateRow(outcome, answers) ==
    /\ pc = "loop"
    /\ index < Len(df)
    /\ LET provider == df[index + 1]
           provider_num == index + 1
           npi_data == get_npi_provider_data(outcome)
           found == npi_data.v["status"].v = SUCCESS
           compared == compare_provider(provider, npi_data, csv_args.use_ai, answers)
           looked_up == [function |-> "get_npi_provider_data",
                         args |-> provider_num, ret |-> npi_data]
           comparison == [function |-> "compare_provider",
                          args |-> [row |-> provider_num,
                                    answers |-> IF csv_args.use_ai THEN answers
                                                ELSE <<>>],
                          ret |-> compared]
       IN  IF "npi_number" \notin DOMAIN provider.v
           THEN /\ ret' = reraised(KeyError("npi_number"))
                /\ pc' = "done"
                /\ UNCHANGED <<index, csv_results, trace>>
           ELSE IF found /\ Raised(compared)
           THEN /\ ret' = reraised(compared)
                /\ pc' = "done"
                /\ trace' = trace \o <<looked_up, comparison>>
                /\ UNCHANGED <<index, csv_results>>
           ELSE /\ csv_results' = Append(csv_results,
                                      row_result(provider_num, provider, npi_data,
                                                 compared, csv_args.use_ai))
                /\ index' = index + 1
                /\ trace' = IF found THEN trace \o <<looked_up, comparison>>
                            ELSE Append(trace, looked_up)
                /\ UNCHANGED <<pc, ret>>
    /\ UNCHANGED <<df, csv_summary>>
    /\ CsvFrame

\* the loop is over: return results
ReturnResults ==
    /\ pc = "loop"
    /\ index >= Len(df)
    /\ ret' = PyList(csv_results)
    /\ pc' = "done"
    /\ UNCHANGED <<df, index, csv_results, csv_summary, trace>>
    /\ CsvFrame

\* the caller passes the returned list to get_validation_summary
Summarise ==
    /\ pc = "done"
    /\ ~Raised(ret)
    /\ csv_summary' = get_validation_summary(ret)
    /\ pc' = "summarised"
    /\ UNCHANGED <<df, index, csv_results, ret, trace>>
    /\ CsvFrame

NextCsv ==
    \/ ReadCsv
    \/ \E outcome \in LookupOutcomes, answers \in AiAnswers : ValidateRow(outcome, answers)
    \/ ReturnResults
    \/ Summarise

SpecCsv == InitCsv /\ [][NextCsv]_vars

----------------------------------------------------------------------------
(* Properties *)

Done == pc = "done"

\* a rounded value (hundredths of a point) within 0..100 points
InRange(h) == 0 <= h /\ h <= 10000

\* an unrounded similarity within 0..100 points
RInRange(x) == RLeq(RInt(0), x) /\ RLeq(x, RInt(100))

\* the sum of the rationals g[x], x in S
RECURSIVE SumRat(_, _)
SumRat(S, g) ==
    IF S = {} THEN RInt(0)
    ELSE LET x == CHOOSE y \in S : TRUE
         IN  RAdd(g[x], SumRat(S \ {x}, g))

\* the sum of the integers g[x], x in S
RECURSIVE SumInt(_, _)
SumInt(S, g) ==
    IF S = {} THEN 0
    ELSE LET x == CHOOSE y \in S : TRUE
         IN  g[x] + SumInt(S \ {x}, g)

\* the method weight table in force for the call
WeightOfMethod(m) ==
    Get(IF method_weights = NoTable THEN METHOD_WEIGHTS ELSE method_weights, m, 0)

AllMethods == Range(Methods)

TrackedFields == Range(Fields)

\* C1: every similarity, every method score and breakdown entry, every
\* combined field confidence and the overall confidence returned by
\* evaluate_all lies in [0,100].
C1_Boundedness ==
    (Done /\ ~Raised(ret)) =>
        /\ \A m \in DOMAIN ret.method_scores :
              /\ InRange(ret.method_scores[m].method_score)
              /\ \A f \in DOMAIN ret.method_scores[m].breakdown :
                    InRange(ret.method_scores[m].breakdown[f])
        /\ \A m \in DOMAIN ret.per_method_field_confidences :
              \A f \in TrackedFields :
                    RInRange(ret.per_method_field_confidences[m][f])
        /\ \A f \in DOMAIN ret.combined_fields : InRange(ret.combined_fields[f])
        /\ InRange(ret.overall_confidence)

\* three methods answered, one of them matches on every field, and the overall
\* confidence is strictly between the two ends of the range
C1_Witness ==
    /\ Done
    /\ DOMAIN method_results = AllMethods
    /\ \E m \in AllMethods : ret.method_scores[m].method_score = 10000
    /\ ret.overall_confidence > 0
    /\ ret.overall_confidence < 10000

\* the methods of method_results that report a value (not None) for field f
Reporting(f) ==
    {m \in DOMAIN method_results : Get(method_results[m], f, Null) # Null}

\* the method-weighted average of field f over the methods in M, rounded
AverageOver(M, f) ==
    Round2(RDivInt(SumRat(M, [m \in M |->
                       RScale(ret.per_method_field_confidences[m][f], WeightOfMethod(m))]),
                   SumInt(M, [m \in M |-> WeightOfMethod(m)])))

\* C2: a method present in method_results that reports null for a field is
\* excluded from that field's denominator: the combined confidence of the
\* field is the method-weighted average over the reporting methods only.
C2_AbsenceExclusion ==
    (Done /\ ~Raised(ret)) =>
        \A f \in TrackedFields :
            (SumInt(Reporting(f), [m \in Reporting(f) |-> WeightOfMethod(m)]) > 0) =>
                ret.combined_fields[f] = AverageOver(Reporting(f), f)

\* C3: field_confidence_for_method returns 0 whenever either value is null or
\* empty, for every field and whatever the other value is.
C3_MissingValueFloor ==
    (Done /\ (Falsy(extracted_value) \/ Falsy(method_value))) => ret = RInt(0)

\* a missing value was compared, on each side, with a value that is present
C3_Witness ==
    /\ Done
    /\ field = "name"
    /\ extracted_value = Null
    /\ ~Falsy(method_value)
    /\ ret = RInt(0)

\* C4: evaluate_all with an empty method_results raises nothing and returns 0
\* for each of the five combined field confidences, 0 overall, and empty
\* method-score and per-method matrices.
C4_DegenerateInput ==
    (Done /\ DOMAIN method_results = {}) =>
        /\ ~Raised(ret)
        /\ DOMAIN ret.combined_fields = TrackedFields
        /\ \A f \in TrackedFields : ret.combined_fields[f] = 0
        /\ ret.overall_confidence = 0
        /\ DOMAIN ret.method_scores = {}
        /\ DOMAIN ret.per_method_field_confidences = {}

\* evaluate_all returned for a fully populated claimed record and no method
C4_Witness ==
    /\ Done
    /\ DOMAIN method_results = {}
    /\ extracted = Canon
    /\ ~Raised(ret)

\* every field of the claimed record is null or absent
ClaimedAllNull == \A f \in TrackedFields : Get(extracted, f, Null) = Null

\* C5: evaluate_all never raises for records of strings and nulls, and when
\* every claimed field is null every method score, every combined field
\* confidence and the overall confidence are 0.
C5_SparseInput ==
    Done =>
        /\ ~Raised(ret)
        /\ ClaimedAllNull =>
              /\ \A m \in DOMAIN ret.method_scores :
                    ret.method_scores[m].method_score = 0
              /\ \A f \in TrackedFields : ret.combined_fields[f] = 0
              /\ ret.overall_confidence = 0

\* all claimed fields are null, three methods answered, one of them silent on
\* some fields and another populated on all
C5_Witness ==
    /\ Done
    /\ ClaimedAllNull
    /\ DOMAIN method_results = AllMethods
    /\ \E m \in AllMethods : \A f \in TrackedFields : method_results[m][f] # Null
    /\ \E m \in AllMethods : \E f \in TrackedFields : method_results[m][f] = Null
    /\ ret.overall_confidence = 0

C7_PhoneDigits ==
    (Done /\ field = "phone" /\ ~Falsy(extracted_value) /\ ~Falsy(method_value)) =>
        LET da == DigitsOf(extracted_value)
            db == DigitsOf(method_value)
        IN  /\ RInRange(ret)
            /\ (da = db) => ret = RInt(100)
            /\ (da # db) => ret = Ratio(da, db)

\* C7 amended: two phone values with equal, non-empty digit strings score
\* exactly 100; a value without any digit scores 0; nothing exceeds 100; and
\* unequal non-empty digit strings score the similarity of the digit strings.
C7_PhoneDigitsNonEmpty ==
    (Done /\ field = "phone" /\ ~Falsy(extracted_value) /\ ~Falsy(method_value)) =>
        LET da == DigitsOf(extracted_value)
            db == DigitsOf(method_value)
        IN  /\ RInRange(ret)
            /\ (da = db /\ da # <<>>) => ret = RInt(100)
            /\ (da = <<>> \/ db = <<>>) => ret = RInt(0)
            /\ (da # db /\ da # <<>> /\ db # <<>>) => ret = Ratio(da, db)

\* two phone values formatted differently but with the same digits scored 100
C7_Witness ==
    /\ Done
    /\ field = "phone"
    /\ extracted_value # method_value
    /\ DigitsOf(extracted_value) # <<>>
    /\ ret = RInt(100)

\* the similarity of field f between the claimed record and method_result
SimilarityOf(f) ==
    field_confidence_for_method(f, Get(extracted, f, Null), Get(method_result, f, Null))

\* sum of weight(f) * similarity(f) over F, divided by the sum of weight(f) over F
RenormalizedAverage(F) ==
    RDivInt(SumRat(F, [f \in F |-> RScale(SimilarityOf(f), FIELD_WEIGHTS[f])]),
            SumInt(F, [f \in F |-> FIELD_WEIGHTS[f]]))

\* the call scores a non-empty list of tracked fields
ScoresTrackedFields ==
    /\ fields # NoList
    /\ fields # <<>>
    /\ Range(fields) \subseteq TrackedFields

\* C8 as stated: for a subset F of the tracked fields, the method score equals
\* the weighted sum of the similarities of F divided by the sum of the weights
\* of F.
C8_PartialWeights ==
    (Done /\ ScoresTrackedFields /\ ~Raised(ret)) =>
        Rat(ret.method_score, 100) = RenormalizedAverage(Range(fields))

\* C8 amended: the method score equals that quotient rounded to two decimals.
C8_PartialWeightsRounded ==
    (Done /\ ScoresTrackedFields) =>
        /\ ~Raised(ret)
        /\ ret.method_score = Round2(RenormalizedAverage(Range(fields)))

\* only npi and phone were scored, the npi differs and the phone is close
C8_Witness ==
    /\ Done
    /\ fields = <<"npi", "phone">>
    /\ ret.breakdown["npi"] = 0
    /\ ret.breakdown["phone"] = 8889
    /\ ret.method_score = 2963

\* C9: compute_method_score returns 0 without raising when the list of fields
\* is empty and when every field to score has weight 0 or is not in the table.
C9_ScorerDegenerate ==
    (Done /\ fields # NoList
          /\ \A f \in Range(fields) : Get(FIELD_WEIGHTS, f, 0) = 0) =>
        /\ ~Raised(ret)
        /\ ret.method_score = 0

\* only fields outside the weight table were scored
C9_Witness ==
    /\ Done
    /\ fields = <<UntrackedField, "email">>
    /\ ~Raised(ret)
    /\ DOMAIN ret.breakdown = {UntrackedField, "email"}

\* the shape of the reference example: the registry and the scraped records
\* populate all five fields, the geocode record only address and phone
ReferenceShape ==
    /\ DOMAIN method_results = AllMethods
    /\ method_weights = NoTable
    /\ field_weights = NoTable
    /\ \A f \in TrackedFields :
          /\ method_results["npi_registry"][f] # Null
          /\ method_results["web_scrape"][f] # Null
          /\ method_results["google_maps"][f] # Null <=> f \in GeocodeFields

\* every method scores 100 on every field it reports
ReportedAtMaximum ==
    \A m \in AllMethods : \A f \in TrackedFields :
        method_results[m][f] # Null =>
            ret.per_method_field_confidences[m][f] = RInt(100)

\* C10: on the reference example with the default weight tables, the overall
\* confidence is greater than 85 whenever every reporting method scores 100
\* on every field it reports.
C10_EndToEnd ==
    (Done /\ ~Raised(ret) /\ ReferenceShape /\ ReportedAtMaximum) =>
        ret.overall_confidence > 8500

\* C11: when the method weight table or the field weight table passed to
\* evaluate_all holds a negative weight, the call is rejected: it raises and
\* never returns scores computed with a negative weight.
C11_EagerRejection ==
    (Done /\ (HasNegative(method_weights) \/ HasNegative(field_weights))) =>
        Raised(ret)

\* the methods supplied as keys of method_results
Supplied == DOMAIN method_results

\* the total weight of the supplied methods
SuppliedWeight == SumInt(Supplied, [m \in Supplied |-> WeightOfMethod(m)])

\* the similarity method m gives field f against the claimed record
SimilarityOfMethod(m, f) ==
    field_confidence(f, Get(extracted, f, Null), Get(method_results[m], f, Null))

\* sum over the supplied methods of methodWeight(m) * similarity(m, f), divided
\* by the sum over the supplied methods of methodWeight(m)
SuppliedQuotient(f) ==
    RDivInt(SumRat(Supplied, [m \in Supplied |->
                RScale(SimilarityOfMethod(m, f), WeightOfMethod(m))]),
            SuppliedWeight)

\* C12 as stated: for a non-empty set M of methods supplied as keys of
\* method_results, each field's combined confidence equals the sum over M of
\* methodWeight(m) * similarity(m, field) divided by the sum over M of
\* methodWeight(m); the weights of the methods outside M are in neither sum.
C12_AbsentMethod ==
    (Done /\ ~Raised(ret) /\ SuppliedWeight > 0) =>
        \A f \in TrackedFields :
            Rat(ret.combined_fields[f], 100) = SuppliedQuotient(f)

\* C12 amended: each field's combined confidence equals that quotient rounded
\* to two decimals.
C12_AbsentMethodRounded ==
    (Done /\ SuppliedWeight > 0) =>
        /\ ~Raised(ret)
        /\ \A f \in TrackedFields :
              ret.combined_fields[f] = Round2(SuppliedQuotient(f))

\* the geocoding method is absent, the two others disagree on the name, and
\* the default method weights apply
C12_Witness ==
    /\ Done
    /\ Supplied = {"npi_registry", "web_scrape"}
    /\ method_weights = NoTable
    /\ ret.per_method_field_confidences["npi_registry"]["name"]
          # ret.per_method_field_confidences["web_scrape"]["name"]
    /\ ret.combined_fields["name"] > 0
    /\ ret.combined_fields["name"] < 10000

\* the field weight table in force for a call of compute_overall_confidence
FieldTableInForce == IF field_weights = NoTable THEN FIELD_WEIGHTS ELSE field_weights

\* the list `fields` without the fields that are not keys of FIELD_WEIGHTS
WeightedFields ==
    LET Weighted(f) == f \in DOMAIN FIELD_WEIGHTS
    IN  SelectSeq(fields, Weighted)

\* the combined mapping without the keys that are not keys of the table
WeightedCombined ==
    [f \in DOMAIN combined_field_confidences \cap DOMAIN FieldTableInForce |->
        combined_field_confidences[f]]

\* C13: a field absent from the field weight table weighs 0 and is left out
\* of the average: compute_method_score returns the same score with and
\* without the fields of `fields` that are not keys of the table, and
\* compute_overall_confidence the same confidence with and without the keys
\* of the combined mapping that are not keys of the table.
C13_AbsentFieldIgnored ==
    Done =>
        /\ (function = "compute_method_score" /\ fields # NoList) =>
              /\ ~Raised(ret)
              /\ ret.method_score =
                    compute_method_score(method_name, extracted, method_result,
                                         WeightedFields).method_score
        /\ (function = "compute_overall_confidence") =>
              /\ ~Raised(ret)
              /\ ret = compute_overall_confidence(WeightedCombined, field_weights)

\* the combined mapping holds an untracked field at 100 next to tracked
\* fields, and the confidence returned is neither 0 nor 100
C13_Witness ==
    /\ Done
    /\ function = "compute_overall_confidence"
    /\ UntrackedField \in DOMAIN combined_field_confidences
    /\ combined_field_confidences[UntrackedField] = 10000
    /\ ret.overall > 0
    /\ ret.overall < 10000

\* C14: a call of compute_method_score, compute_combined_field_confidences,
\* compute_overall_confidence or evaluate_all leaves the claimed record, the
\* method result records, the supplied weight tables and the module-level
\* FIELD_WEIGHTS and METHOD_WEIGHTS unchanged, and returns what every earlier
\* call of the same function with the same arguments returned, whatever calls
\* were made in between.
C14_Purity ==
    [][(pc = "call" /\ pc' = "done") =>
          /\ module_globals' = module_globals
          /\ extracted' = extracted
          /\ method_result' = method_result
          /\ method_results' = method_results
          /\ method_weights' = method_weights
          /\ field_weights' = field_weights
          /\ combined_field_confidences' = combined_field_confidences
          /\ \A i \in 1..Len(trace) :
                (trace[i].function = function /\ trace[i].args = ArgsOf(function)) =>
                    trace[i].ret = ret']_vars

\* evaluate_all was called twice with the same arguments and tables of the
\* caller's own, with a call of another function in between
C14_Witness ==
    /\ Done
    /\ function = "evaluate_all"
    /\ Len(trace) = 3
    /\ trace[1].function = "evaluate_all"
    /\ trace[2].function = "compute_method_score"
    /\ trace[3].function = "evaluate_all"
    /\ trace[1].args = trace[3].args
    /\ method_weights = OverrideMethodWeights
    /\ DOMAIN method_results = AllMethods
    /\ trace[3].ret = ret

\* what invocation t returns when it runs alone
ResultAlone(t) ==
    evaluate_all(frames[t].extracted, frames[t].method_results,
                 frames[t].method_weights, frames[t].field_weights)

\* every invocation that returned, returned what it returns run alone
ReturnsAsAlone ==
    \A t \in Threads : frames[t].pc = "done" => frames[t].ret = ResultAlone(t)

RECURSIVE NonFiniteIn(_)
NonFiniteIn(obj) ==
    IF obj.t = "dict" THEN \E k \in DOMAIN obj.v : NonFiniteIn(obj.v[k])
    ELSE IF obj.t = "list" THEN \E i \in 1..Len(obj.v) : NonFiniteIn(obj.v[i])
    ELSE obj.t = "float" /\ "nonfinite" \in DOMAIN obj.v

\* b is a with every NaN and every infinite float replaced by null, and every
\* other value as it was
RECURSIVE NullifiedFrom(_, _)
NullifiedFrom(a, b) ==
    IF a.t = "dict"
    THEN /\ b.t = "dict"
         /\ DOMAIN b.v = DOMAIN a.v
         /\ \A k \in DOMAIN a.v : NullifiedFrom(a.v[k], b.v[k])
    ELSE IF a.t = "list"
    THEN /\ b.t = "list"
         /\ Len(b.v) = Len(a.v)
         /\ \A i \in 1..Len(a.v) : NullifiedFrom(a.v[i], b.v[i])
    ELSE IF a.t = "float" /\ "nonfinite" \in DOMAIN a.v THEN b.t = "NoneType"
    ELSE b.t = a.t /\ b.v = a.v

\* the results and the summary the handler computed for the request
ComputedResults == ResultsOf(request.rows, request.use_ai)

ComputedSummary == get_validation_summary(ComputedResults)

\* C16: every successful response of /api/validate and of
\* /api/validate-sample holds no NaN and no infinite number at any depth of
\* its results and summary: each is replaced by null, and every other value
\* is passed through unchanged.
C16_NonFiniteBecomesNull ==
    (Done /\ response.status = 200) =>
        /\ ~NonFiniteIn(response.body.v["results"])
        /\ ~NonFiniteIn(response.body.v["summary"])
        /\ NullifiedFrom(ComputedResults, response.body.v["results"])
        /\ NullifiedFrom(ComputedSummary, response.body.v["summary"])

\* the method score of method m under a field weight table: the average of the
\* similarities of the tracked fields weighted by the table, rounded; 0 when
\* the weights add up to 0
ScoreUnderTable(m, table) ==
    LET total == SumInt(TrackedFields, [f \in TrackedFields |-> Get(table, f, 0)])
    IN  IF total > 0
        THEN Round2(RDivInt(SumRat(TrackedFields, [f \in TrackedFields |->
                                RScale(SimilarityOfMethod(m, f), Get(table, f, 0))]),
                            total))
        ELSE 0

\* the overall confidence under a field weight table
OverallUnderTable(table) ==
    LET total == SumInt(TrackedFields, [f \in TrackedFields |-> Get(table, f, 0)])
    IN  IF total # 0
        THEN Round2(RDivInt(SumRat(TrackedFields, [f \in TrackedFields |->
                                RScale(Rat(ret.combined_fields[f], 100), Get(table, f, 0))]),
                            total))
        ELSE 0

\* C17: the field weight table supplied to evaluate_all is the one used by the
\* per-method scores and by the overall confidence, the method weight table
\* supplied is the one used by the per-field combination, and the module-level
\* tables are used only for a table that is omitted.
C17_ExplicitTables ==
    (Done /\ ~Raised(ret)) =>
        /\ \A m \in Supplied :
              ret.method_scores[m].method_score = ScoreUnderTable(m, FieldTableInForce)
        /\ ret.overall_confidence = OverallUnderTable(FieldTableInForce)
        /\ SuppliedWeight > 0 =>
              \A f \in TrackedFields :
                  ret.combined_fields[f] = Round2(SuppliedQuotient(f))

\* the total of the field weights in force over the fields of the combined mapping
CombinedFieldWeight ==
    SumInt(DOMAIN ret.combined_fields,
           [f \in DOMAIN ret.combined_fields |-> Get(FieldTableInForce, f, 0)])

\* sum over the fields of the combined mapping of fieldWeight(f) * combined(f),
\* divided by the sum of fieldWeight(f) over the same fields
CombinedQuotient ==
    RDivInt(SumRat(DOMAIN ret.combined_fields, [f \in DOMAIN ret.combined_fields |->
                RScale(Rat(ret.combined_fields[f], 100), Get(FieldTableInForce, f, 0))]),
            CombinedFieldWeight)

\* C18 as stated: the overall confidence equals the sum over the fields of the
\* combined mapping of fieldWeight(f) * combined(f) divided by the sum of
\* fieldWeight(f) over those fields, and is 0 when that sum is 0; combined(f)
\* is the combined confidence returned for the field.
C18_OverallFormula ==
    (Done /\ ~Raised(ret)) =>
        IF CombinedFieldWeight = 0 THEN ret.overall_confidence = 0
        ELSE Rat(ret.overall_confidence, 100) = CombinedQuotient

\* C18 amended: the overall confidence equals that quotient rounded to two
\* decimals, and is 0 when the sum of the weights is 0.
C18_OverallFormulaRounded ==
    Done =>
        /\ ~Raised(ret)
        /\ ret.overall_confidence =
              IF CombinedFieldWeight = 0 THEN 0 ELSE Round2(CombinedQuotient)

\* three methods answered under the default tables, the combined confidences
\* of the fields differ, and the overall confidence is neither 0 nor 100
C18_Witness ==
    /\ Done
    /\ Supplied = AllMethods
    /\ field_weights = NoTable
    /\ ret.combined_fields["npi"] # ret.combined_fields["name"]
    /\ ret.combined_fields["name"] # ret.combined_fields["phone"]
    /\ ret.overall_confidence > 0
    /\ ret.overall_confidence < 10000

\* C19: for every method m of method_results and every tracked field f, the
\* breakdown entry method_scores[m]["breakdown"][f] returned by evaluate_all
\* equals the matrix entry per_method_field_confidences[m][f] rounded to two
\* decimals, and both cover the same methods and fields.
C19_SingleSimilarity ==
    (Done /\ ~Raised(ret)) =>
        /\ DOMAIN ret.method_scores = Supplied
        /\ DOMAIN ret.per_method_field_confidences = Supplied
        /\ \A m \in Supplied :
              /\ DOMAIN ret.method_scores[m].breakdown = TrackedFields
              /\ DOMAIN ret.per_method_field_confidences[m] = TrackedFields
              /\ \A f \in TrackedFields :
                    ret.method_scores[m].breakdown[f] =
                        Round2(ret.per_method_field_confidences[m][f])

\* a method's similarity on a field is not a whole number of hundredths, and
\* the breakdown shows it rounded
C19_Witness ==
    /\ Done
    /\ "web_scrape" \in Supplied
    /\ ret.per_method_field_confidences["web_scrape"]["address"].d > 1
    /\ ret.per_method_field_confidences["web_scrape"]["address"].d # 100
    /\ ret.method_scores["web_scrape"].breakdown["address"] > 0
    /\ ret.method_scores["web_scrape"].breakdown["address"] < 10000

\* every supplied method reports None for field f
AllSilent(f) == \A m \in Supplied : Get(method_results[m], f, Null) = Null

\* C20: for every method_results, empty or not, the combined mapping has
\* exactly the five tracked fields as keys, and a field for which every
\* supplied method reports null has combined confidence 0.
C20_SilentFieldReported ==
    Done =>
        /\ ~Raised(ret)
        /\ DOMAIN ret.combined_fields = TrackedFields
        /\ \A f \in TrackedFields : AllSilent(f) => ret.combined_fields[f] = 0

\* three methods answered, all of them silent on the npi that the claimed
\* record holds, while another field has a positive combined confidence
C20_Witness ==
    /\ Done
    /\ Supplied = AllMethods
    /\ Get(extracted, "npi", Null) # Null
    /\ AllSilent("npi")
    /\ ~AllSilent("address")
    /\ ret.combined_fields["npi"] = 0
    /\ ret.combined_fields["address"] > 0

\* C21: two non-empty specialty values that are equal after lower-casing and
\* trimming surrounding whitespace score 100; when they differ after that
\* normalization the score is the token-sort similarity of the normalized
\* values.
C21_SpecialtyExactMatch ==
    (Done /\ field = "specialty" /\ ~Falsy(extracted_value) /\ ~Falsy(method_value)) =>
        LET a_norm == Strip(Lower(extracted_value))
            b_norm == Strip(Lower(method_value))
        IN  /\ (a_norm = b_norm) => ret = RInt(100)
            /\ (a_norm # b_norm) => ret = TokenSortRatio(a_norm, b_norm)

\* two specialty values that differ in case and in surrounding whitespace
\* scored 100
C21_Witness ==
    /\ Done
    /\ field = "specialty"
    /\ ~Falsy(extracted_value)
    /\ ~Falsy(method_value)
    /\ Lower(extracted_value) # extracted_value
    /\ Strip(method_value) # method_value
    /\ Strip(Lower(extracted_value)) = Strip(Lower(method_value))
    /\ Strip(Lower(extracted_value)) # <<>>
    /\ ret = RInt(100)

BeforeScaling == trace[1]

AfterScaling == trace[2]

Evaluated == trace # Idle /\ Len(trace) = 2

\* the method weight table was multiplied by a constant between the two calls
MethodTableScaled == Evaluated /\ AfterScaling.method_weights # BeforeScaling.method_weights

\* the field weight table was multiplied by a constant between the two calls
FieldTableScaled == Evaluated /\ AfterScaling.field_weights # BeforeScaling.field_weights

\* the constant is a power of two
ScaledByPowerOfTwo ==
    \E k \in {2, 4} :
        \/ AfterScaling.method_weights = Scaled(BeforeScaling.method_weights, k)
        \/ AfterScaling.field_weights = Scaled(BeforeScaling.field_weights, k)

\* two rounded values at most one hundredth apart
Within(h1, h2) == h1 - h2 <= 1 /\ h2 - h1 <= 1

\* C22 as stated: multiplying every method weight by a positive constant
\* leaves every combined field confidence unchanged, and multiplying every
\* field weight by a positive constant leaves every method score and the
\* overall confidence unchanged.
C22_ScaleInvariance ==
    /\ MethodTableScaled =>
          AfterScaling.ret.combined_fields = BeforeScaling.ret.combined_fields
    /\ FieldTableScaled =>
          /\ \A m \in DOMAIN method_results :
                AfterScaling.ret.method_scores[m].method_score
                    = BeforeScaling.ret.method_scores[m].method_score
          /\ AfterScaling.ret.overall_confidence = BeforeScaling.ret.overall_confidence

\* C22 amended: the multiplication moves no combined field confidence, no
\* method score and no overall confidence by more than 0.01, and moves none
\* at all when the constant is a power of two.
C22_ScaleInvarianceToLastDigit ==
    /\ MethodTableScaled =>
          \A f \in TrackedFields :
              /\ Within(AfterScaling.ret.combined_fields[f],
                        BeforeScaling.ret.combined_fields[f])
              /\ ScaledByPowerOfTwo =>
                    AfterScaling.ret.combined_fields[f] = BeforeScaling.ret.combined_fields[f]
    /\ FieldTableScaled =>
          /\ \A m \in DOMAIN method_results :
                /\ Within(AfterScaling.ret.method_scores[m].method_score,
                          BeforeScaling.ret.method_scores[m].method_score)
                /\ ScaledByPowerOfTwo =>
                      AfterScaling.ret.method_scores[m].method_score
                          = BeforeScaling.ret.method_scores[m].method_score
          /\ Within(AfterScaling.ret.overall_confidence,
                    BeforeScaling.ret.overall_confidence)
          /\ ScaledByPowerOfTwo =>
                AfterScaling.ret.overall_confidence = BeforeScaling.ret.overall_confidence

\* the method weight table was multiplied by a constant and a combined field
\* confidence strictly between 0 and 100 came out the same
C22_Witness ==
    /\ MethodTableScaled
    /\ \E f \in TrackedFields :
          /\ BeforeScaling.ret.combined_fields[f] \in 1..9999
          /\ AfterScaling.ret.combined_fields[f] = BeforeScaling.ret.combined_fields[f]

\* the two evaluations of the revising caller
Revised == trace # Idle /\ Len(trace) = 2

BeforeRevision == trace[1].ret

AfterRevision == trace[2].ret

\* no similarity went down between the two calls
SimilarityRaised ==
    \A m \in DOMAIN method_results : \A f \in TrackedFields :
        RLeq(BeforeRevision.per_method_field_confidences[m][f],
             AfterRevision.per_method_field_confidences[m][f])

\* no weight of the tables in force is negative
NonNegativeTables ==
    /\ ~HasNegative(FIELD_WEIGHTS)
    /\ ~HasNegative(IF method_weights = NoTable THEN METHOD_WEIGHTS ELSE method_weights)
    /\ ~HasNegative(IF field_weights = NoTable THEN FIELD_WEIGHTS ELSE field_weights)

\* C24: with non-negative weight tables, raising one similarity of one method
\* on one field lowers no method score, no combined field confidence and not
\* the overall confidence.
C24_Monotonicity ==
    (Revised /\ NonNegativeTables /\ SimilarityRaised) =>
        /\ \A m \in DOMAIN method_results :
              BeforeRevision.method_scores[m].method_score
                  <= AfterRevision.method_scores[m].method_score
        /\ \A f \in TrackedFields :
              BeforeRevision.combined_fields[f] <= AfterRevision.combined_fields[f]
        /\ BeforeRevision.overall_confidence <= AfterRevision.overall_confidence

\* a source corrected one value, its similarity went up, and so did the
\* method's score, the field's combined confidence and the overall confidence
C24_Witness ==
    /\ Revised
    /\ NonNegativeTables
    /\ SimilarityRaised
    /\ \E m \in DOMAIN method_results : \E f \in TrackedFields :
          /\ BeforeRevision.per_method_field_confidences[m][f]
                # AfterRevision.per_method_field_confidences[m][f]
          /\ BeforeRevision.per_method_field_confidences[m][f] # RInt(0)
          /\ BeforeRevision.method_scores[m].method_score
                < AfterRevision.method_scores[m].method_score
          /\ BeforeRevision.combined_fields[f] < AfterRevision.combined_fields[f]
    /\ BeforeRevision.overall_confidence < AfterRevision.overall_confidence

\* the supplied methods that have a positive weight in the table in force
PositiveMethods == {m \in DOMAIN method_results : WeightOfMethod(m) > 0}

\* the similarity of method m on field f in the evaluation that returned
ReturnedSimilarity(m, f) == ret.per_method_field_confidences[m][f]

\* every supplied method scored 100 on every field
AllExact ==
    \A m \in DOMAIN method_results : \A f \in TrackedFields :
        ReturnedSimilarity(m, f) = RInt(100)

\* C25 as stated: when every supplied method with a positive weight has the
\* same similarity s on a field, the combined confidence of the field is s;
\* when every supplied method matches exactly on all five fields, every
\* method score, every combined field confidence and the overall confidence
\* are 100.
C25_Unanimity ==
    (Done /\ DOMAIN method_results # {}) =>
        /\ \A f \in TrackedFields : \A m \in PositiveMethods :
              (\A k \in PositiveMethods : ReturnedSimilarity(k, f) = ReturnedSimilarity(m, f)) =>
                  Rat(ret.combined_fields[f], 100) = ReturnedSimilarity(m, f)
        /\ AllExact =>
              /\ \A m \in DOMAIN method_results : ret.method_scores[m].method_score = 10000
              /\ \A f \in TrackedFields : ret.combined_fields[f] = 10000
              /\ ret.overall_confidence = 10000

\* the supplied methods whose weight in the table in force is not 0, and the
\* total weight of the supplied methods
WeighingMethods == {m \in DOMAIN method_results : WeightOfMethod(m) # 0}

MethodWeightSum ==
    SumInt(DOMAIN method_results, [m \in DOMAIN method_results |-> WeightOfMethod(m)])

\* the total weight of the five fields in the field weight table in force
FieldWeightSum ==
    SumInt(TrackedFields,
           [f \in TrackedFields |->
               Get(IF field_weights = NoTable THEN FIELD_WEIGHTS ELSE field_weights, f, 0)])

\* C25 amended: when the weights of the supplied methods do not sum to 0 and
\* every supplied method with a non-zero weight has the same similarity s on
\* a field, the combined confidence of the field is s rounded to two
\* decimals; when every supplied method matches exactly on all five fields,
\* every method score is 100, every combined field confidence is 100 if the
\* method weights do not sum to 0 (and 0 if they do), and the overall
\* confidence is 100 if moreover the field weights do not sum to 0.
C25_UnanimityRounded ==
    (Done /\ DOMAIN method_results # {}) =>
        /\ \A f \in TrackedFields : \A m \in WeighingMethods :
              (/\ MethodWeightSum # 0
               /\ \A k \in WeighingMethods :
                     ReturnedSimilarity(k, f) = ReturnedSimilarity(m, f)) =>
                  ret.combined_fields[f] = Round2(ReturnedSimilarity(m, f))
        /\ AllExact =>
              /\ \A m \in DOMAIN method_results : ret.method_scores[m].method_score = 10000
              /\ \A f \in TrackedFields :
                    ret.combined_fields[f] = IF MethodWeightSum # 0 THEN 10000 ELSE 0
              /\ (MethodWeightSum # 0 /\ FieldWeightSum # 0) => ret.overall_confidence = 10000

\* two weighted sources report the same value, whose similarity has more than
\* two decimals, and the combined confidence is that similarity rounded
C25_Witness ==
    /\ Done
    /\ Cardinality(PositiveMethods) >= 2
    /\ \E f \in TrackedFields : \E m \in PositiveMethods :
          /\ \A k \in PositiveMethods : ReturnedSimilarity(k, f) = ReturnedSimilarity(m, f)
          /\ Rat(ret.combined_fields[f], 100) # ReturnedSimilarity(m, f)
          /\ ret.combined_fields[f] = Round2(ReturnedSimilarity(m, f))

\* the entries process_providers owes to the calls tr[i..] of run_validations
RECURSIVE EntriesOwed(_, _)
EntriesOwed(tr, i) ==
    IF i > Len(tr) THEN <<>>
    ELSE IF Raised(tr[i].ret) THEN EntriesOwed(tr, i + 1)
    ELSE <<Merge(tr[i].args, tr[i].ret)>> \o EntriesOwed(tr, i + 1)

\* C26: process_providers calls run_validations once for each provider, in
\* input order, whether or not an earlier call raised, and the list it returns
\* holds, in that order, the provider merged with its result for exactly the
\* calls that returned
C26_FailureIsolation ==
    /\ pc = "loop" =>
          /\ Len(trace) = idx - 1
          /\ all_results = EntriesOwed(trace, 1)
    /\ pc = "done" =>
          /\ Len(trace) = Len(providers)
          /\ \A i \in 1..Len(providers) : trace[i].args = providers[i]
          /\ ret = EntriesOwed(trace, 1)

\* a call that raised was followed by a call that returned, and the list
\* returned holds the entry of the second only
C26_Witness ==
    /\ pc = "done"
    /\ Len(trace) = 2
    /\ Raised(trace[1].ret)
    /\ ~Raised(trace[2].ret)
    /\ providers[1] # providers[2]
    /\ ret = <<Merge(providers[2], trace[2].ret)>>
    /\ DOMAIN ret[1] = Range(Fields) \cup {"method_confidences",
                           "combined_field_confidences", "overall_confidence"}

\* the request passes the three file checks of validate_csv
PassesFileChecks ==
    request.has_file /\ request.filename # <<>> /\ allowed_file(request.filename)

\* the path validate_csv saves the upload under
UploadPath == <<"i", "d", "_">> \o request.filename

\* C27: once validate_csv returned for a request that passes the file checks,
\* with 200 or with 500 after a failure at any step, the file it saved is no
\* longer in the uploads folder unless the removal fails; a request rejected
\* with 400 writes no file
C27_UploadCleanup ==
    (pc = "done" /\ request.endpoint = "/api/validate") =>
        /\ PassesFileChecks <=> response.status \in {200, 500}
        /\ ~PassesFileChecks <=> response.status = 400
        /\ (PassesFileChecks /\ request.remove_ok) => UploadPath \notin uploads
        /\ response.status = 200 => UploadPath \notin uploads
        /\ response.status = 400 => uploads = {}

\* a request whose validation fails after the upload was saved got its 500
\* response, and the uploads folder is empty again
C27_Witness ==
    /\ pc = "done"
    /\ request.endpoint = "/api/validate"
    /\ PassesFileChecks
    /\ request.save_ok /\ request.raises /\ request.remove_ok
    /\ response.status = 500
    /\ uploads = {}

\* the entries of trace that are calls of fn
CallsOf(fn) == {k \in 1..Len(trace) : trace[k].function = fn}

\* the text of match_status for n mismatches, n being 1, 2, 3 or 4
CountText ==
    <<<<"1", "_", "M", "I", "S", "M", "A", "T", "C", "H", "E", "S">>, <<"2", "_", "M", "I", "S", "M", "A", "T", "C", "H", "E", "S">>, <<"3", "_", "M", "I", "S", "M", "A", "T", "C", "H", "E", "S">>, <<"4", "_", "M", "I", "S", "M", "A", "T", "C", "H", "E", "S">>>>

\* validate_providers_from_csv is past the reading of the file
CsvLoopEntered == pc \in {"loop", "summarised"} \/ (pc = "done" /\ csv_results # Idle)

\* C28: the results hold one entry per processed row, in row order; after a
\* failed lookup no comparison is run, mismatches and ai_insights are empty
\* and match_status is the lookup status, NOT_FOUND or ERROR; after a
\* successful one match_status is PERFECT_MATCH exactly when there is no
\* mismatch, and "<n>_MISMATCHES" for n mismatches otherwise
C28_MatchStatusDerivation ==
    CsvLoopEntered =>
        /\ Len(csv_results) = index
        /\ (pc = "done" /\ ~Raised(ret)) =>
              (ret = PyList(csv_results) /\ Len(csv_results) = Len(df))
        /\ \A i \in 1..Len(csv_results) :
              LET r == csv_results[i].v
                  status == r["npi_data"].v["status"].v
                  n == Len(r["mismatches"].v)
              IN  /\ r["provider_id"] = PyInt(i)
                  /\ r["csv_data"] = df[i]
                  /\ status # SUCCESS =>
                        /\ status \in {NOT_FOUND, ERROR}
                        /\ r["mismatches"] = PyList(<<>>)
                        /\ r["ai_insights"] = PyList(<<>>)
                        /\ r["match_status"].v = status
                        /\ \A k \in CallsOf("compare_provider") : trace[k].args.row # i
                  /\ status = SUCCESS =>
                        /\ (r["match_status"].v = PERFECT_MATCH) <=> (n = 0)
                        /\ n > 0 => (n <= 4 /\ r["match_status"].v = CountText[n])

\* a list was returned whose first entry reports a lookup that failed and
\* whose second entry reports four mismatches
C28_Witness ==
    /\ pc = "done"
    /\ ~Raised(ret)
    /\ Len(ret.v) = 2
    /\ ret.v[1].v["match_status"].v = ERROR
    /\ Len(ret.v[2].v["mismatches"].v) = 4
    /\ ret.v[2].v["match_status"].v = <<"4", "_", "M", "I", "S", "M", "A", "T", "C", "H", "E", "S">>

\* the sum of the counts of a dict of counts
RECURSIVE SumOfCounts(_, _)
SumOfCounts(counts, keys) ==
    IF keys = {} THEN 0
    ELSE LET k == CHOOSE k \in keys : TRUE
         IN  counts[k].v + SumOfCounts(counts, keys \ {k})

\* a rate of the summary lies in [0, 100]
IsPercentage(rate) ==
    IF rate.t = "int" THEN rate.v >= 0 /\ rate.v <= 100
    ELSE RLeq(RInt(0), rate.v) /\ RLeq(rate.v, RInt(100))

\* C29: for a list validate_providers_from_csv returned, the summary has
\* perfect_matches <= successful_lookups <= total_providers, the counts of
\* mismatch_types sum to the number of mismatches of all results, both rates
\* lie in [0, 100], and a rate whose denominator is 0 is 0
C29_SummaryInvariants ==
    pc = "summarised" =>
        LET s == csv_summary.v
        IN  /\ s["total_providers"].v = Len(ret.v)
            /\ s["perfect_matches"].v <= s["successful_lookups"].v
            /\ s["successful_lookups"].v <= s["total_providers"].v
            /\ SumOfCounts(s["mismatch_types"].v, DOMAIN s["mismatch_types"].v)
                  = SumOfLens(ret.v, "mismatches", 1)
            /\ IsPercentage(s["success_rate"])
            /\ IsPercentage(s["match_rate"])
            /\ s["total_providers"].v = 0 => s["success_rate"] = PyInt(0)
            /\ s["successful_lookups"].v = 0 => s["match_rate"] = PyInt(0)

\* the summary of two results, one of a failed lookup and one with four
\* mismatches of four types: half of the lookups succeeded, none matched
C29_Witness ==
    /\ pc = "summarised"
    /\ csv_summary.v["total_providers"].v = 2
    /\ csv_summary.v["successful_lookups"].v = 1
    /\ csv_summary.v["perfect_matches"].v = 0
    /\ Cardinality(DOMAIN csv_summary.v["mismatch_types"].v) = 4
    /\ csv_summary.v["success_rate"] = PyFloat(RInt(50))
    /\ csv_summary.v["match_rate"] = PyFloat(RInt(0))

\* the answers of the language model that are none of the options asked for
InvalidAnswers(a) ==
    \/ a.csv_status \notin {<<"A", "C", "T", "I", "V", "E">>, <<"I", "N", "A", "C", "T", "I", "V", "E">>, <<"U", "N", "K", "N", "O", "W", "N">>}
    \/ a.npi_status \notin {<<"A", "C", "T", "I", "V", "E">>, <<"I", "N", "A", "C", "T", "I", "V", "E">>, <<"U", "N", "K", "N", "O", "W", "N">>}
    \/ a.specialty \notin {<<"M", "A", "T", "C", "H">>, <<"M", "I", "S", "M", "A", "T", "C", "H">>, <<"U", "N", "C", "E", "R", "T", "A", "I", "N">>}
    \/ a.address \notin {<<"S", "A", "M", "E">>, <<"D", "I", "F", "F", "E", "R", "E", "N", "T">>}

\* the comparison of trace[k] cannot complete: the language model is asked
\* and answers off the options, or reads a column the file does not have
ComparisonFails(k) ==
    /\ trace[k].function = "compare_provider"
    /\ csv_args.use_ai
    /\ \/ InvalidAnswers(trace[k].args.answers)
       \/ ~({"Status", "Speciality", "Address"} \subseteq csv_file.columns)

\* C30: a lookup that failed is recorded as the result of its row and the
\* loop goes on to the next row, whereas a comparison that cannot complete
\* ends the call with an exception, which carries none of the results
\* computed for the rows before
C30_AllOrNothing ==
    CsvLoopEntered =>
        /\ \A k \in CallsOf("get_npi_provider_data") :
              trace[k].ret.v["status"].v # SUCCESS =>
                  /\ trace[k].args <= Len(csv_results)
                  /\ csv_results[trace[k].args].v["npi_data"] = trace[k].ret
                  /\ (pc = "done" /\ k = Len(trace)) =>
                        (ret = PyList(csv_results) /\ trace[k].args = Len(df))
        /\ \A k \in CallsOf("compare_provider") :
              IF ComparisonFails(k)
              THEN /\ pc = "done"
                   /\ k = Len(trace)
                   /\ Raised(ret)
                   /\ DOMAIN ret = {"raised", "message"}
                   /\ Len(csv_results) = trace[k].args.row - 1
              ELSE trace[k].args.row <= Len(csv_results)

\* the lookup of the first row failed and is recorded, the comparison of the
\* second row raised, and the call ended with the exception
C30_Witness ==
    /\ pc = "done"
    /\ Raised(ret)
    /\ ret.raised = "RuntimeError"
    /\ Len(csv_results) = 1
    /\ csv_results[1].v["match_status"].v = <<"E", "R", "R", "O", "R">>
    /\ Len(trace) = 3
    /\ ComparisonFails(3)

====
